---- MODULE Spec2Model ----
(***************************************************************************)
(* A model of gopro-sdk-py: the BLE frame codec, inbound queue and connect *)
(* procedure of BleConnectionManager (connection/ble_manager.py), the      *)
(* command, COHN and WiFi procedures of BleCommands                        *)
(* (commands/ble_commands.py), the session life cycle and mode gating of   *)
(* GoProClient (client.py) and the lazy connection and readiness probe of  *)
(* HttpConnectionManager (connection/http_manager.py).                     *)
(*                                                                         *)
(* The module holds several specifications over one set of variables;      *)
(* each specification drives one part of the program and leaves the        *)
(* variables of the other parts at their initial values.                   *)
(***************************************************************************)
EXTENDS Integers, Sequences, FiniteSets, TLC

VARIABLES
    \* ---- BleConnectionManager (ble_manager.py:79-85) ----
    accumulating_response,  \* self._accumulating_response : sequence of bytes
    bytes_remaining,        \* self._bytes_remaining : integer (may go negative)
    header_buffer,          \* self._header_buffer : sequence of bytes
    response_queue,         \* self._response_queue : FIFO of complete messages
    loop_ready,             \* callbacks scheduled with call_soon_threadsafe, not yet run
    loop_closed,            \* whether call_soon_threadsafe raises (event loop closed)
    wire,                   \* notifications on their way to _on_notification, in order
    \* ---- bookkeeping of the codec scenarios ----
    tx,                     \* what the peer is transmitting (a record, see NoTx)
    outs,                   \* messages completed by _on_notification since tx began
    last_event,             \* which branch the last _on_notification call took
    tx_starts,              \* new-message headers parsed since tx began
    tx_desyncs,             \* "received too much data" resets since tx began
    strays,                 \* stray transmissions the peer has made so far
    \* ---- commands on one BLE link (ble_commands.py:78-125) ----
    pc,                     \* per task: where its _send_protobuf_command call stands
    to_write,               \* per task: fragments ble.write has still to send
    cam_rx,                 \* fragments the camera has received and not yet answered
    req,                    \* per task: serial number of the request it sent
    got,                    \* per task: what wait_for_response returned or raised
    stale,                  \* per task: queue content when it called clear_response_queue
    scheduled,              \* per task: messages handed to the loop but not queued at that clear
    n_reqs,                 \* requests started so far
    n_push,                 \* unsolicited notifications the camera has pushed so far
    \* ---- configure_cohn (ble_commands.py:539-705) ----
    cohn_pc,                \* where the configure_cohn call stands
    cohn_now,               \* loop.time(), in poll intervals
    start_time,             \* start_time of _wait_for_cohn_provisioned
    cohn_sent,              \* requests configure_cohn has sent, in order
    clear_reply,            \* how the clear-certificate command ended
    poll_response,          \* status_response of the latest poll
    wait_outcome,           \* how _wait_for_cohn_provisioned ended
    cert_response,          \* cert_response.cert
    cohn_result,            \* what configure_cohn returned or raised
    \* ---- connect_to_wifi (ble_commands.py:1004-1259) ----
    wifi_pc,                \* where the connect_to_wifi call stands
    wifi_site,              \* which Connect* call is running
    wifi_ssid,              \* the ssid argument
    has_cohn_credentials,   \* the has_cohn_credentials argument
    wifi_elapsed,           \* loop.time() - start_time of the running wait loop
    wifi_sent,              \* requests connect_to_wifi has sent, in order
    wifi_result,            \* what connect_to_wifi returned or raised
    known1_failed,          \* the RequestConnect of line 1045 failed
    known2_error,           \* what the RequestConnect of line 1093 raised
    scan_end,               \* how scan_wifi_networks ended
    networks,               \* what the scan said about the target SSID
    connect_cause,          \* what the running Connect* call last received
    scan_cause,             \* what scan_wifi_networks last received
    connect_outcome,        \* how the last finished Connect* call ended, and on what
    \* ---- GoProClient (client.py) with its two connection managers ----
    client_pc,              \* where the running client operation stands
    client_op,              \* the operation that runs or ran last
    client_result,          \* what that operation returned or raised
    client_log,             \* what that operation sent, saved and handed over, in order
    offline_mode,           \* self._offline_mode
    store,                  \* CohnConfigManager: the records held for this camera (0 or 1)
    the_credentials,        \* the local variable credentials of open / switch_to_online_mode
    loaded,                 \* what _config_manager.load returned to the running operation
    status,                 \* the latest reply to get_cohn_status in the running operation
    ip_attempt,             \* attempts of the IP wait loop of open made so far
    ready_elapsed,          \* loop.time() - start_time in _wait_for_camera_ready
    ble_is_connected,       \* BleConnectionManager._is_connected
    ble_client,             \* BleConnectionManager._ble_client is not None
    http_is_connected,      \* HttpConnectionManager._is_connected
    http_session,           \* HttpConnectionManager._session is not None
    http_credentials,       \* HttpConnectionManager._credentials (0 or 1 record)
    camera,                 \* what the camera holds: its address, username, password, certificate
    \* ---- _wait_for_https_ready (http_manager.py:177-297) ----
    probe_pc,               \* where the probe stands
    attempt,                \* the loop variable attempt
    consecutive_timeouts,   \* the local counter consecutive_timeouts
    timeouts_in_a_row,      \* GETs that timed out since the last GET that did not
    probe_gets,             \* GETs issued by the running probe
    probe_slept,            \* time the running probe has slept
    probe_result,           \* how the probe ended
    \* ---- BleConnectionManager.connect (ble_manager.py:96-268) ----
    ble_lock,               \* self._ble_lock: the task that holds it, or NoTask
    conn_pc,                \* per task: where its connect call stands
    retry,                  \* per task: the loop variable retry
    radio,                  \* whether a matching device is advertised
    scans,                  \* calls of BleakScanner.discover so far (counted up to MaxScans)
    link_up,                \* BleakClient.is_connected
    established,            \* per task: its connect call set _is_connected = True
    n_drops,                \* link drops so far
    \* ---- HealthCheckMixin.reconnect (health_check.py:77-117) ----
    reconnect_pc,           \* where the reconnect call stands
    reconnect_attempt,      \* the local variable attempt
    max_reconnect_attempts, \* self._max_reconnect_attempts
    reconnect_result,       \* what reconnect returned
    reconnect_calls,        \* what the latest attempt called, in order
    reconnect_slept,        \* the backoff sleep before the running attempt
    \* ---- _fragment called on its own (ble_manager.py:436-493) ----
    fragment_data,          \* the argument data, named by its length and pattern
    fragment_pc,            \* whether _fragment has been called, and how it ended
    fragment_packets,       \* the list of packets it returned
    \* ---- BleConnectionManager.write (ble_manager.py:495-515) ----
    write_pc,               \* where the write call stands
    write_packets,          \* the packets it has still to send
    write_sent,             \* the packets of this call the camera acknowledged
    write_log,              \* the packets of this call given to write_gatt_char, in order
    write_result,           \* how the latest write call ended
    \* ---- TimeoutConfig (config.py:52-103) ----
    ip_wait_max_attempts,   \* the configured number of attempts of the IP wait
    \* ---- MultiCameraManager (multi_camera.py:73-336) ----
    max_concurrent,         \* self._max_concurrent_count, the size of the semaphore
    clients,                \* the keys of self._clients
    statuses,               \* self._statuses: per managed camera its counters and last error
    target_ids,             \* the cameras the latest execute_all call was made for
    execute_pc,             \* per camera: where its execute_one task stands
    execute_results,        \* what the execute_one tasks have returned so far
    execute_all_pc,         \* whether execute_all waits in gather
    execute_all_outcome,    \* how the latest execute_all call ended
    result_dict,            \* what the latest execute_all call returned
    n_calls                 \* execute_all calls so far

mgrVars   == <<accumulating_response, bytes_remaining, header_buffer,
               response_queue, loop_ready, loop_closed, wire>>
codecVars == <<tx, outs, last_event, tx_starts, tx_desyncs, strays>>
linkVars  == <<pc, to_write, cam_rx, req, got, stale, scheduled, n_reqs, n_push>>
cohnVars  == <<cohn_pc, cohn_now, start_time, cohn_sent, clear_reply, poll_response,
               wait_outcome, cert_response, cohn_result>>
wifiVars  == <<wifi_pc, wifi_site, wifi_ssid, has_cohn_credentials, wifi_elapsed,
               wifi_sent, wifi_result, known1_failed, known2_error, scan_end, networks,
               connect_cause, scan_cause, connect_outcome>>
clientVars == <<client_pc, client_op, client_result, client_log, offline_mode, store,
                the_credentials, loaded, status, ip_attempt, ready_elapsed, ble_is_connected,
                ble_client, http_is_connected, http_session, http_credentials>>
protocolVars == <<mgrVars, codecVars, linkVars, cohnVars, wifiVars>>
probeVars == <<probe_pc, attempt, consecutive_timeouts, timeouts_in_a_row, probe_gets,
               probe_slept, probe_result>>
bleVars == <<ble_lock, conn_pc, retry, radio, scans, link_up, established, n_drops>>
healthVars == <<reconnect_pc, reconnect_attempt, max_reconnect_attempts, reconnect_result,
                reconnect_calls, reconnect_slept>>
fragVars == <<fragment_data, fragment_pc, fragment_packets>>
\* The variables of the parts that stand on their own.
writeVars == <<write_pc, write_packets, write_sent, write_log, write_result>>
configVars == <<ip_wait_max_attempts>>
multiVars == <<max_concurrent, clients, statuses, target_ids, execute_pc, execute_results,
               execute_all_pc, execute_all_outcome, result_dict, n_calls>>
moreVars == <<configVars, multiVars>>
restVars == <<healthVars, fragVars, writeVars, moreVars>>
sessionVars == <<clientVars, camera, probeVars, bleVars, restVars>>
vars      == <<protocolVars, sessionVars>>

----------------------------------------------------------------------------
(* Bounds of the model.                                                    *)

\* Payloads of every length 0..MaxLen are transmitted.
MaxLen == 20
\* Stray packets the peer sends in one behaviour.
MaxStray == 1

----------------------------------------------------------------------------
(* Protocol constants, ble_manager.py:30-43.                               *)

CONT_MASK == 128
HDR_MASK == 96
GEN_LEN_MASK == 31
EXT_13_BYTE0_MASK == 31
HEADER_TYPE_GENERAL == 0
HEADER_TYPE_EXT_13 == 1
HEADER_TYPE_EXT_16 == 2
HEADER_EXT_13_PREFIX == 32
HEADER_EXT_16_PREFIX == 64
CONTINUATION_HEADER == 128
\* max_ble_pkt_len, ble_manager.py:457
max_ble_pkt_len == 20

----------------------------------------------------------------------------
(* Python integer and slice operations used by the codec.                  *)

RECURSIVE BitAnd(_, _)
BitAnd(a, b) ==
    IF a = 0 \/ b = 0 THEN 0
    ELSE (a % 2) * (b % 2) + 2 * BitAnd(a \div 2, b \div 2)

RECURSIVE BitOr(_, _)
BitOr(a, b) ==
    IF a = 0 THEN b
    ELSE IF b = 0 THEN a
    ELSE (IF a % 2 = 1 \/ b % 2 = 1 THEN 1 ELSE 0) + 2 * BitOr(a \div 2, b \div 2)

ShiftR(a, n) == a \div (2 ^ n)
ShiftL(a, n) == a * (2 ^ n)

\* s[:n]
Take(s, n) == SubSeq(s, 1, IF n < Len(s) THEN n ELSE Len(s))
\* s[n:]
Drop(s, n) == SubSeq(s, n + 1, Len(s))

----------------------------------------------------------------------------
(* _fragment, ble_manager.py:436-493.                                      *)

\* ContinuationPackets without the continuation marker in front of each packet.
ContinuationPackets_NoMarker(remaining_data) ==
    LET step == max_ble_pkt_len - 1
        iterations == (Len(remaining_data) + step - 1) \div step
    IN  [k \in 1..iterations |-> Take(Drop(remaining_data, (k - 1) * step), step)]

\* The while loop of lines 486-490: its k-th iteration emits the marker and
\* the next max_ble_pkt_len - 1 bytes of remaining_data.
ContinuationPackets(remaining_data) ==
    LET step == max_ble_pkt_len - 1
        iterations == (Len(remaining_data) + step - 1) \div step
    IN  [k \in 1..iterations |->
            <<CONTINUATION_HEADER>> \o Take(Drop(remaining_data, (k - 1) * step), step)]

\* A header choice that knows the Extended-13 header only.
FragmentHeader_Ext13Only(data_len) ==
    IF data_len < 65536
    THEN <<BitOr(HEADER_EXT_13_PREFIX, BitAnd(ShiftR(data_len, 8), 31)),
           BitAnd(data_len, 255)>>
    ELSE <<>>

\* The header chosen by lines 461-473; <<>> stands for the ValueError.
FragmentHeader(data_len) ==
    IF data_len < 8192
    THEN <<BitOr(HEADER_EXT_13_PREFIX, BitAnd(ShiftR(data_len, 8), 31)),
           BitAnd(data_len, 255)>>
    ELSE IF data_len < 65536
    THEN <<HEADER_EXT_16_PREFIX, BitAnd(ShiftR(data_len, 8), 255), BitAnd(data_len, 255)>>
    ELSE <<>>

\* [ok |-> FALSE] is the ValueError of line 473; otherwise the list of packets.
Fragment(data) ==
    LET header == FragmentHeader(Len(data))
        first_packet_payload_size == max_ble_pkt_len - Len(header)
    IN  IF header = <<>>
        THEN [ok |-> FALSE, packets |-> <<>>]
        ELSE [ok |-> TRUE,
              packets |-> <<(header \o Take(data, first_packet_payload_size))>>
                          \o ContinuationPackets(Drop(data, first_packet_payload_size))]

----------------------------------------------------------------------------
(* _on_notification, ble_manager.py:300-408, as a function of the          *)
(* reassembly state st = [acc, rem, hdr] and the notification's bytes.     *)
(* The result adds out (the messages completed: none or one) and the       *)
(* branch taken.                                                           *)

\* OnDesync without the reset of lines 386-387.
OnDesync_NoReset(acc, rem, branch) ==
    [acc |-> acc, rem |-> rem, hdr |-> <<>>, out |-> <<>>,
     branch |-> branch, end |-> "desync"]

\* Lines 381-387: remaining length went negative; log the error, reset.
OnDesync(acc, rem, branch) ==
    [acc |-> <<>>, rem |-> 0, hdr |-> <<>>, out |-> <<>>,
     branch |-> branch, end |-> "desync"]

\* Lines 388-408: remaining length is zero; hand the message over, reset.
OnComplete(acc, rem, branch) ==
    [acc |-> <<>>, rem |-> 0, hdr |-> <<>>, out |-> <<acc>>,
     branch |-> branch, end |-> "complete"]

\* Lines 380-408: the check after the packet has been accumulated.
CheckComplete(acc, rem, branch) ==
    IF rem < 0 THEN OnDesync(acc, rem, branch)
    ELSE IF rem = 0 THEN OnComplete(acc, rem, branch)
    ELSE [acc |-> acc, rem |-> rem, hdr |-> <<>>, out |-> <<>>,
          branch |-> branch, end |-> "partial"]

\* BufferHeader without the header buffer: the truncated packet is dropped.
BufferHeader_Dropped(st, buf) ==
    [acc |-> <<>>, rem |-> st.rem, hdr |-> <<>>, out |-> <<>>,
     branch |-> "buffered", end |-> "none"]

\* Lines 348-352 and 363-367: the header is incomplete; the packet is kept in
\* _header_buffer for the next notification. The accumulator was emptied at
\* line 340, _bytes_remaining is not touched.
BufferHeader(st, buf) ==
    [acc |-> <<>>, rem |-> st.rem, hdr |-> buf, out |-> <<>>,
     branch |-> "buffered", end |-> "none"]

\* Lines 338-378: a packet whose first byte has bit 7 clear.
NewPacket(st, buf) ==
    LET header_type == ShiftR(BitAnd(buf[1], HDR_MASK), 5)
    IN  IF header_type = HEADER_TYPE_GENERAL
        THEN CheckComplete(Drop(buf, 1),
                           BitAnd(buf[1], GEN_LEN_MASK) - Len(Drop(buf, 1)), "new")
        ELSE IF header_type = HEADER_TYPE_EXT_13
        THEN IF Len(buf) < 2
             THEN BufferHeader(st, buf)
             ELSE CheckComplete(Drop(buf, 2),
                                BitOr(ShiftL(BitAnd(buf[1], EXT_13_BYTE0_MASK), 8), buf[2])
                                    - Len(Drop(buf, 2)), "new")
        ELSE IF header_type = HEADER_TYPE_EXT_16
        THEN IF Len(buf) < 3
             THEN BufferHeader(st, buf)
             ELSE CheckComplete(Drop(buf, 3),
                                BitOr(ShiftL(buf[2], 8), buf[3]) - Len(Drop(buf, 3)), "new")
        ELSE [acc |-> <<>>, rem |-> st.rem, hdr |-> <<>>, out |-> <<>>,
              branch |-> "unknown", end |-> "none"]

\* Lines 332-337: a packet whose first byte has bit 7 set.
ContinuationPacket(st, buf) ==
    CheckComplete(st.acc \o Drop(buf, 1), st.rem - Len(Drop(buf, 1)), "cont")

\* Lines 317-378: empty packet, pending header buffer, then the two kinds.
Feed(st, data) ==
    IF Len(data) = 0
    THEN [acc |-> st.acc, rem |-> st.rem, hdr |-> st.hdr, out |-> <<>>,
          branch |-> "empty", end |-> "none"]
    ELSE LET buf == IF Len(st.hdr) > 0 THEN st.hdr \o data ELSE data
         IN  IF BitAnd(buf[1], CONT_MASK) # 0
             THEN ContinuationPacket(st, buf)
             ELSE NewPacket(st, buf)

ReassemblyState ==
    [acc |-> accumulating_response, rem |-> bytes_remaining, hdr |-> header_buffer]

CleanState ==
    accumulating_response = <<>> /\ bytes_remaining = 0 /\ header_buffer = <<>>

----------------------------------------------------------------------------
(* The manager's actions.                                                  *)

\* _on_notification as a step: the next notification on the wire is handed to
\* the callback. A completed message is scheduled on the event loop with
\* call_soon_threadsafe (line 398) or, when that raises, put into the queue
\* directly (line 402).
on_notification ==
    /\ wire # <<>>
    /\ LET r == Feed(ReassemblyState, Head(wire))
       IN  /\ accumulating_response' = r.acc
           /\ bytes_remaining' = r.rem
           /\ header_buffer' = r.hdr
           /\ IF loop_closed
              THEN /\ response_queue' = response_queue \o r.out
                   /\ loop_ready' = loop_ready
              ELSE /\ loop_ready' = loop_ready \o r.out
                   /\ response_queue' = response_queue
    /\ wire' = Tail(wire)
    /\ UNCHANGED loop_closed

\* _put_response_safe, ble_manager.py:410-416: the event loop runs the callback.
put_response_safe ==
    /\ loop_ready # <<>>
    /\ response_queue' = Append(response_queue, Head(loop_ready))
    /\ loop_ready' = Tail(loop_ready)
    /\ UNCHANGED <<accumulating_response, bytes_remaining, header_buffer,
                   loop_closed, wire>>

\* A clear_response_queue that leaves the queue as it is.
clear_response_queue_Skipped(queue) == queue

\* clear_response_queue, ble_manager.py:517-523: get_nowait until empty.
RECURSIVE clear_response_queue(_)
clear_response_queue(queue) ==
    IF queue = <<>> THEN queue ELSE clear_response_queue(Tail(queue))

----------------------------------------------------------------------------
(* The peer of the codec scenarios: what arrives as notifications.         *)

\* Byte values a payload is built from: they include bytes that look like a
\* continuation marker and like each header class.
PayloadBytes == <<0, 128, 32, 64, 96, 255, 1>>

Payload(len, seed) ==
    [i \in 1..len |-> PayloadBytes[((i + seed) % Len(PayloadBytes)) + 1]]

\* Payload lengths around the Extended-13 / Extended-16 boundary.
LongLens == {8191, 8192}

\* A payload is named by its length and its pattern.
ShortPayloads == {[len |-> len, seed |-> len] : len \in 0..MaxLen}
LongPayloads == {[len |-> len, seed |-> 0] : len \in LongLens}

\* The long payloads are sent into a clean reassembly state only.
Payloads == ShortPayloads \cup (IF CleanState THEN LongPayloads ELSE {})

\* Bursts of packets no encoder produces: an over-long continuation; a
\* started General message overrun by its continuation; a General packet
\* longer than declared; a started message left incomplete; a lone
\* continuation; an unknown header class followed by a continuation; an
\* empty notification; truncated Extended-13 and Extended-16 headers.
StrayBursts ==
    { << <<128, 7, 7, 7, 7, 7, 7>> >>,
      << <<5, 7, 7>>, <<128, 7, 7, 7, 7, 7, 7>> >>,
      << <<1, 9, 9, 9>> >>,
      << <<5, 7, 7>> >>,
      << <<128, 7>> >>,
      << <<96, 1>>, <<128, 7>> >>,
      << <<>> >>,
      << <<32>> >>,
      << <<64, 0>> >> }

NoTx == [kind |-> "none", len |-> 0, seed |-> 0, clean |-> FALSE, after_desync |-> FALSE]

\* The bytes of the message being transmitted.
TxPayload == Payload(tx.len, tx.seed)

StartTx(kind, p) ==
    /\ tx' = [kind |-> kind, len |-> p.len, seed |-> p.seed, clean |-> CleanState,
              after_desync |-> last_event.end = "desync"]
    /\ outs' = <<>>
    /\ last_event' = [branch |-> "none", end |-> "none", delivered |-> 0]
    /\ tx_starts' = 0
    /\ tx_desyncs' = 0
    /\ strays' = strays + (IF kind \in {"stray", "split_bytes"} THEN 1 ELSE 0)
    /\ UNCHANGED <<accumulating_response, bytes_remaining, header_buffer,
                   response_queue, loop_ready, loop_closed>>

Quiet == wire = <<>> /\ response_queue = <<>> /\ loop_ready = <<>>

\* The peer sends one message, fragmented as _fragment does.
SendMessage ==
    /\ Quiet
    /\ \E p \in Payloads :
        /\ wire' = Fragment(Payload(p.len, p.seed)).packets
        /\ StartTx("msg", p)

\* One byte of a packet per notification.
Bytewise(packet) == [i \in 1..Len(packet) |-> <<packet[i]>>]

\* The header of a packet one byte per notification; the notification that
\* carries the last header byte carries the packet's payload as well.
HeaderBytewise(packet, header_len) ==
    [i \in 1..header_len |->
        IF i < header_len THEN <<packet[i]>> ELSE Drop(packet, header_len - 1)]

\* The peer sends one message whose first packet reaches the callback split:
\* every byte on its own (no encoder does this to a payload: it counts as
\* stray traffic), or only the header bytes on their own.
SendSplit ==
    /\ Quiet
    /\ \E kind \in {"split_bytes", "split_header"} :
       \E p \in (IF kind = "split_bytes" THEN ShortPayloads ELSE Payloads) :
        LET packets == Fragment(Payload(p.len, p.seed)).packets
            first == IF kind = "split_bytes"
                     THEN Bytewise(Head(packets))
                     ELSE HeaderBytewise(Head(packets), Len(FragmentHeader(p.len)))
        IN  /\ kind = "split_bytes" => strays < MaxStray
            /\ wire' = first \o Tail(packets)
            /\ StartTx(kind, p)

\* A burst of stray packets arrives.
SendStray ==
    /\ Quiet
    /\ strays < MaxStray
    /\ \E s \in StrayBursts :
        /\ wire' = s
        /\ StartTx("stray", [len |-> 0, seed |-> 0])

\* Bursts around a packet that starts no message: a continuation packet
\* without payload in a clean state; a started message, a packet with header
\* class 3, then a continuation with as many bytes as were missing; header
\* class 3 followed by a continuation without payload.
MalformedBursts ==
    { << <<128>> >>,
      << <<5, 7, 7>>, <<96, 1>>, <<128, 7, 7, 7>> >>,
      << <<96, 1>>, <<128>> >> }

\* A burst of such packets arrives.
SendMalformed ==
    /\ Quiet
    /\ \E s \in MalformedBursts :
        /\ wire' = s
        /\ StartTx("malformed", [len |-> 0, seed |-> 0])

\* _on_notification in the codec scenarios, with their bookkeeping.
CodecNotification ==
    /\ on_notification
    /\ LET r == Feed(ReassemblyState, Head(wire))
       IN  /\ outs' = outs \o r.out
           /\ last_event' = [branch |-> r.branch, end |-> r.end, delivered |-> Len(r.out)]
           /\ tx_starts' = tx_starts + (IF r.branch = "new" THEN 1 ELSE 0)
           /\ tx_desyncs' = tx_desyncs + (IF r.end = "desync" THEN 1 ELSE 0)
    /\ UNCHANGED <<tx, strays>>

\* wait_for_response, ble_manager.py:418-434, in the codec scenarios: the
\* consumer takes the next message off the queue.
Consume ==
    /\ response_queue # <<>>
    /\ response_queue' = Tail(response_queue)
    /\ UNCHANGED <<accumulating_response, bytes_remaining, header_buffer,
                   loop_ready, loop_closed, wire, codecVars>>

InitMgr ==
    /\ accumulating_response = <<>>
    /\ bytes_remaining = 0
    /\ header_buffer = <<>>
    /\ response_queue = <<>>
    /\ loop_ready = <<>>
    /\ wire = <<>>

InitCodec ==
    /\ tx = NoTx
    /\ outs = <<>>
    /\ last_event = [branch |-> "none", end |-> "none", delivered |-> 0]
    /\ tx_starts = 0
    /\ tx_desyncs = 0
    /\ strays = 0

----------------------------------------------------------------------------
(* Commands on one BLE link: _send_protobuf_command, ble_commands.py:78-125,*)
(* run by tasks of one event loop against one BleConnectionManager, and    *)
(* the camera answering them.                                              *)

\* Tasks that may call _send_protobuf_command on the same client.
NumTasks == 2
\* Requests started in one behaviour.
MaxReqs == 2
\* Unsolicited notifications the camera pushes in one behaviour.
MaxPush == 1

Tasks == 1..NumTasks

\* command_data of request n: feature id 0xF5 (query), action id 0x6F, body.
RequestMsg(n) == <<245, 111, n>>
\* The camera's response to request n: action id 0xEF, body.
ResponseMsg(n) == <<245, 239, n>>
\* A notification nobody asked for (feature 0x02, action 0x0C), body.
PushMsg(k) == <<2, 12, k>>

NoResult == [kind |-> "none", data |-> <<>>]

InitLink ==
    /\ pc = [t \in Tasks |-> "idle"]
    /\ to_write = [t \in Tasks |-> <<>>]
    /\ cam_rx = <<>>
    /\ req = [t \in Tasks |-> 0]
    /\ got = [t \in Tasks |-> NoResult]
    /\ stale = [t \in Tasks |-> {}]
    /\ scheduled = [t \in Tasks |-> {}]
    /\ n_reqs = 0
    /\ n_push = 0

\* Lines 98-104 up to the first suspension: the queue is cleared, the command
\* is built and fragmented (ble_manager.py:511), the first write is under way.
\* Tasks are interchangeable, so a new command is started by the first idle one.
Begin(t) ==
    /\ pc[t] = "idle"
    /\ \A u \in Tasks : u < t => pc[u] # "idle"
    /\ n_reqs < MaxReqs
    /\ n_reqs' = n_reqs + 1
    /\ req' = [req EXCEPT ![t] = n_reqs + 1]
    /\ stale' = [stale EXCEPT ![t] = {response_queue[i] : i \in 1..Len(response_queue)}]
    /\ scheduled' = [scheduled EXCEPT ![t] = {loop_ready[i] : i \in 1..Len(loop_ready)}]
    /\ response_queue' = clear_response_queue(response_queue)
    /\ to_write' = [to_write EXCEPT ![t] = Fragment(RequestMsg(n_reqs + 1)).packets]
    /\ got' = [got EXCEPT ![t] = NoResult]
    /\ pc' = [pc EXCEPT ![t] = "writing"]
    /\ UNCHANGED <<accumulating_response, bytes_remaining, header_buffer,
                   loop_ready, loop_closed, wire, cam_rx, n_push>>

\* ble_manager.py:512-515: one write_gatt_char(..., response=True) completes;
\* after the last one the task goes on to wait_for_response (line 107).
WriteFragment(t) ==
    /\ pc[t] = "writing"
    /\ cam_rx' = Append(cam_rx, Head(to_write[t]))
    /\ to_write' = [to_write EXCEPT ![t] = Tail(to_write[t])]
    /\ pc' = [pc EXCEPT ![t] = IF Tail(to_write[t]) = <<>> THEN "waiting" ELSE "writing"]
    /\ UNCHANGED <<mgrVars, req, got, stale, scheduled, n_reqs, n_push>>

\* wait_for_response, ble_manager.py:430-432: the queue's get() returns the
\* oldest message.
WaitReturn(t) ==
    /\ pc[t] = "waiting"
    /\ response_queue # <<>>
    /\ got' = [got EXCEPT ![t] = [kind |-> "msg", data |-> Head(response_queue)]]
    /\ response_queue' = Tail(response_queue)
    /\ pc' = [pc EXCEPT ![t] = "done"]
    /\ UNCHANGED <<accumulating_response, bytes_remaining, header_buffer,
                   loop_ready, loop_closed, wire, to_write, cam_rx, req, stale, scheduled,
                   n_reqs, n_push>>

\* wait_for_response, ble_manager.py:433-434: nothing was queued within the
\* timeout; BleConnectionError is raised.
WaitTimeout(t) ==
    /\ pc[t] = "waiting"
    /\ response_queue = <<>>
    /\ got' = [got EXCEPT ![t] = [kind |-> "timeout", data |-> <<>>]]
    /\ pc' = [pc EXCEPT ![t] = "done"]
    /\ UNCHANGED <<mgrVars, to_write, cam_rx, req, stale, scheduled, n_reqs, n_push>>

\* The command has returned or raised; the task may issue its next command.
Return(t) ==
    /\ pc[t] = "done"
    /\ pc' = [pc EXCEPT ![t] = "idle"]
    /\ req' = [req EXCEPT ![t] = 0]
    /\ got' = [got EXCEPT ![t] = NoResult]
    /\ stale' = [stale EXCEPT ![t] = {}]
    /\ scheduled' = [scheduled EXCEPT ![t] = {}]
    /\ UNCHANGED <<mgrVars, to_write, cam_rx, n_reqs, n_push>>

\* The camera answers the oldest request it has received: the response is
\* notified in packets.
CameraReply ==
    /\ cam_rx # <<>>
    /\ wire' = wire \o Fragment(ResponseMsg(Head(cam_rx)[Len(Head(cam_rx))])).packets
    /\ cam_rx' = Tail(cam_rx)
    /\ UNCHANGED <<accumulating_response, bytes_remaining, header_buffer,
                   response_queue, loop_ready, loop_closed, pc, to_write, req, got,
                   stale, scheduled, n_reqs, n_push>>

\* A response that does not fit into one packet (a certificate, a status
\* with its strings): the response to request n, padded to 20 bytes.
LongResponseMsg(n) == ResponseMsg(n) \o [i \in 1..17 |-> 0]

\* The camera answers the oldest request it has received with a response of
\* two packets.
CameraReplyLong ==
    /\ cam_rx # <<>>
    /\ wire' = wire \o Fragment(LongResponseMsg(Head(cam_rx)[Len(Head(cam_rx))])).packets
    /\ cam_rx' = Tail(cam_rx)
    /\ UNCHANGED <<accumulating_response, bytes_remaining, header_buffer,
                   response_queue, loop_ready, loop_closed, pc, to_write, req, got,
                   stale, scheduled, n_reqs, n_push>>

\* The camera pushes a notification of its own.
CameraPush ==
    /\ n_push < MaxPush
    /\ wire = <<>>
    /\ n_push' = n_push + 1
    /\ wire' = wire \o Fragment(PushMsg(n_push + 1)).packets
    /\ UNCHANGED <<accumulating_response, bytes_remaining, header_buffer,
                   response_queue, loop_ready, loop_closed, pc, to_write, cam_rx,
                   req, got, stale, scheduled, n_reqs>>

----------------------------------------------------------------------------
(* COHN provisioning: configure_cohn and _wait_for_cohn_provisioned,       *)
(* ble_commands.py:539-705. Time is counted in poll intervals              *)
(* (cohn_status_poll_interval); Python strings are sequences of characters.*)

\* cohn_wait_provisioned_timeout, in poll intervals.
CohnWaitTicks == 2

\* Characters str.strip() removes.
Whitespace == {" ", "\t"}

RECURSIVE lstrip(_)
lstrip(s) == IF s # <<>> /\ Head(s) \in Whitespace THEN lstrip(Tail(s)) ELSE s

RECURSIVE rstrip(_)
rstrip(s) ==
    IF s # <<>> /\ s[Len(s)] \in Whitespace THEN rstrip(SubSeq(s, 1, Len(s) - 1)) ELSE s

\* str.strip()
strip(s) == rstrip(lstrip(s))

\* bool(str): the empty string is false, every other string is true.
bool(s) == s # <<>>

\* Values of NotifyCOHNStatus.ipaddress: absent, blank, an address.
IpAddresses == {<<>>, <<" ">>, <<"1", "0">>}
\* Values of the username, password and cert fields: absent or present.
Texts == {<<>>, <<"x">>}

StatusReplies ==
    [status : {"COHN_UNPROVISIONED", "COHN_PROVISIONED"},
     state : {"COHN_STATE_Idle", "COHN_STATE_ConnectingToNetwork", "COHN_STATE_NetworkConnected"},
     ipaddress : IpAddresses,
     username : Texts,
     password : Texts]

\* The poll loop reads status, state and ipaddress only.
PollReplies == {r \in StatusReplies : r.username = <<>> /\ r.password = <<>>}
\* The final status query reads ipaddress, username and password only.
FinalReplies ==
    {r \in StatusReplies : r.status = "COHN_PROVISIONED" /\ r.state = "COHN_STATE_NetworkConnected"}

NoStatus ==
    [status |-> "none", state |-> "none", ipaddress |-> <<>>, username |-> <<>>, password |-> <<>>]
\* The status query raised instead of returning a reply.
QueryRaised ==
    [status |-> "raised", state |-> "none", ipaddress |-> <<>>, username |-> <<>>, password |-> <<>>]

\* Results a ResponseGeneric can carry; "raised" stands for _send_protobuf_command
\* raising instead of returning.
GenericResults == {"RESULT_SUCCESS", "RESULT_ILL_FORMED", "RESULT_NOT_READY"}

\* Line 682.
has_ip(status_response) ==
    bool(status_response.ipaddress) /\ bool(strip(status_response.ipaddress))

\* A completion condition that accepts the connecting state without an IP.
CompletionCondition_AnyIp(status_response) ==
    /\ status_response.status = "COHN_PROVISIONED"
    /\ \/ status_response.state = "COHN_STATE_NetworkConnected"
       \/ status_response.state = "COHN_STATE_ConnectingToNetwork"

\* Lines 692-697: is_provisioned and (is_connected or (is_connecting and has_ip)).
CompletionCondition(status_response) ==
    /\ status_response.status = "COHN_PROVISIONED"
    /\ \/ status_response.state = "COHN_STATE_NetworkConnected"
       \/ /\ status_response.state = "COHN_STATE_ConnectingToNetwork"
          /\ has_ip(status_response)

\* Lines 609-614.
Credentials(status_response, cert) ==
    [ip_address |-> status_response.ipaddress,
     username |-> status_response.username,
     password |-> status_response.password,
     certificate |-> cert]

NoCredentials == [ip_address |-> <<>>, username |-> <<>>, password |-> <<>>, certificate |-> <<>>]

\* A validation that does not look at the certificate.
CredentialsComplete_NoCertificate(credentials) ==
    /\ bool(credentials.ip_address)
    /\ bool(credentials.username)
    /\ bool(credentials.password)

\* Lines 617-624: all([ip_address, username, password, certificate]).
CredentialsComplete(credentials) ==
    /\ bool(credentials.ip_address)
    /\ bool(credentials.username)
    /\ bool(credentials.password)
    /\ bool(credentials.certificate)

\* One entry of the log of requests configure_cohn has sent.
Request(step, action, override, register) ==
    [step |-> step, action |-> action, override |-> override, register |-> register]

InitCohn ==
    /\ cohn_pc = "idle"
    /\ cohn_now = 0
    /\ start_time = 0
    /\ cohn_sent = <<>>
    /\ clear_reply = "none"
    /\ poll_response = NoStatus
    /\ wait_outcome = "none"
    /\ cert_response = <<>>
    /\ cohn_result = [kind |-> "none", credentials |-> NoCredentials]

\* Lines 630-633: whatever was raised inside configure_cohn leaves it as
\* CohnConfigurationError.
ConfigureFails ==
    /\ cohn_result' = [kind |-> "CohnConfigurationError", credentials |-> NoCredentials]
    /\ cohn_pc' = "done"

\* configure_cohn is called.
configure_cohn ==
    /\ cohn_pc = "idle"
    /\ cohn_pc' = "clear"
    /\ UNCHANGED <<cohn_now, start_time, cohn_sent, clear_reply, poll_response,
                   wait_outcome, cert_response, cohn_result>>

\* Lines 557-566: the clear-certificate command; its reply is not looked at.
ClearCert ==
    /\ cohn_pc = "clear"
    /\ cohn_sent' = Append(cohn_sent, Request("clear", "REQUEST_CLEAR_COHN_CERT", FALSE, FALSE))
    /\ \E outcome \in GenericResults \cup {"raised"} :
        /\ clear_reply' = outcome
        /\ IF outcome = "raised"
           THEN ConfigureFails
           ELSE cohn_pc' = "create" /\ cohn_result' = cohn_result
    /\ UNCHANGED <<cohn_now, start_time, poll_response, wait_outcome, cert_response>>

\* Lines 568-578 and 644-649: the create-certificate command with override;
\* then the poll loop is entered and start_time taken.
CreateCert ==
    /\ cohn_pc = "create"
    /\ cohn_sent' = Append(cohn_sent, Request("create", "REQUEST_CREATE_COHN_CERT", TRUE, FALSE))
    /\ \E outcome \in GenericResults \cup {"raised"} :
        IF outcome = "raised"
        THEN ConfigureFails /\ start_time' = start_time
        ELSE /\ cohn_pc' = "poll"
             /\ start_time' = cohn_now
             /\ cohn_result' = cohn_result
    /\ UNCHANGED <<cohn_now, clear_reply, poll_response, wait_outcome, cert_response>>

\* Lines 652-663: elapsed > timeout at the top of the loop.
PollTimeout ==
    /\ cohn_pc = "poll"
    /\ cohn_now - start_time > CohnWaitTicks
    /\ wait_outcome' = "TimeoutError"
    /\ ConfigureFails
    /\ UNCHANGED <<cohn_now, start_time, cohn_sent, clear_reply, poll_response, cert_response>>

\* Lines 665-703: one status query of the loop. The query takes d intervals;
\* it raises or returns a reply, and the completion condition decides between
\* returning and sleeping.
PollStatus ==
    /\ cohn_pc = "poll"
    /\ ~(cohn_now - start_time > CohnWaitTicks)
    /\ cohn_sent' = Append(cohn_sent,
            Request("poll", "REQUEST_GET_COHN_STATUS", FALSE, cohn_now - start_time < 1))
    /\ \E d \in 0..1 : cohn_now' = cohn_now + d
    /\ \/ /\ poll_response' = QueryRaised
          /\ wait_outcome' = "BleConnectionError"
          /\ ConfigureFails
       \/ \E status_response \in PollReplies :
            /\ poll_response' = status_response
            /\ cohn_result' = cohn_result
            /\ IF CompletionCondition(status_response)
               THEN wait_outcome' = "returned" /\ cohn_pc' = "cert"
               ELSE wait_outcome' = wait_outcome /\ cohn_pc' = "sleep"
    /\ UNCHANGED <<start_time, clear_reply, cert_response>>

\* Line 705: asyncio.sleep(interval).
PollSleep ==
    /\ cohn_pc = "sleep"
    /\ cohn_now' = cohn_now + 1
    /\ cohn_pc' = "poll"
    /\ UNCHANGED <<start_time, cohn_sent, clear_reply, poll_response, wait_outcome,
                   cert_response, cohn_result>>

\* Lines 587-595: the certificate query.
GetCert ==
    /\ cohn_pc = "cert"
    /\ cohn_sent' = Append(cohn_sent, Request("cert", "REQUEST_GET_COHN_CERT", FALSE, FALSE))
    /\ \/ ConfigureFails /\ cert_response' = cert_response
       \/ \E cert \in Texts :
            /\ cert_response' = cert
            /\ cohn_pc' = "status"
            /\ cohn_result' = cohn_result
    /\ UNCHANGED <<cohn_now, start_time, clear_reply, poll_response, wait_outcome>>

\* Lines 597-628: the status query, the credentials assembled from it and
\* from the certificate, and their validation.
GetStatus ==
    /\ cohn_pc = "status"
    /\ cohn_sent' = Append(cohn_sent, Request("status", "REQUEST_GET_COHN_STATUS", FALSE, FALSE))
    /\ \/ ConfigureFails
       \/ \E status_response \in FinalReplies :
            LET credentials == Credentials(status_response, cert_response)
            IN  IF CredentialsComplete(credentials)
                THEN /\ cohn_result' = [kind |-> "credentials", credentials |-> credentials]
                     /\ cohn_pc' = "done"
                ELSE ConfigureFails
    /\ UNCHANGED <<cohn_now, start_time, clear_reply, poll_response, wait_outcome,
                   cert_response>>

----------------------------------------------------------------------------
(* WiFi association: connect_to_wifi and the calls it makes,               *)
(* ble_commands.py:707-1259. Each wait_for_response either times out       *)
(* (one tick of ble_response_timeout) or returns a notification, at the    *)
(* same tick or at the next one.                                           *)

\* The timeout of a notification wait loop, in ble_response_timeout periods.
WifiWaitTicks == 1

\* EnumProvisioning of open_gopro's network_management protobuf, imported at
\* ble_commands.py:25: state names and their wire numbers.
EnumProvisioning ==
    [PROVISIONING_UNKNOWN |-> 0,
     PROVISIONING_NEVER_STARTED |-> 1,
     PROVISIONING_STARTED |-> 2,
     PROVISIONING_ABORTED_BY_SYSTEM |-> 3,
     PROVISIONING_CANCELLED_BY_USER |-> 4,
     PROVISIONING_SUCCESS_NEW_AP |-> 5,
     PROVISIONING_SUCCESS_OLD_AP |-> 6,
     PROVISIONING_ERROR_FAILED_TO_ASSOCIATE |-> 7,
     PROVISIONING_ERROR_PASSWORD_AUTH |-> 8,
     PROVISIONING_ERROR_EULA_BLOCKING |-> 9,
     PROVISIONING_ERROR_NO_INTERNET |-> 10,
     PROVISIONING_ERROR_UNSUPPORTED_TYPE |-> 11]

\* EnumScanning, imported at ble_commands.py:27: state names.
EnumScanning ==
    {"SCANNING_UNKNOWN", "SCANNING_NEVER_STARTED", "SCANNING_STARTED",
     "SCANNING_ABORTED_BY_SYSTEM", "SCANNING_CANCELLED_BY_USER", "SCANNING_SUCCESS"}

\* What wait_for_response can return: a message shorter than two bytes, a
\* provisioning-state notification, a scan notification, anything else.
Notifications ==
    {[kind |-> "short", state |-> "none"], [kind |-> "other", state |-> "none"]}
    \cup {[kind |-> "provis", state |-> s] : s \in DOMAIN EnumProvisioning}
    \cup {[kind |-> "scan", state |-> s] : s \in EnumScanning}

\* SSIDs a caller may pass; the second one contains the text that line 1098
\* looks for.
Ssids == {"home", "provisioning_state=7"}

\* Exceptions as values. str(e) of a WiFi state error is line 976:
\* "WiFi '{ssid}' connection failed: {error_msg} (provisioning_state={state})".
NoError ==
    [type |-> "none", wifi_state_error |-> FALSE, ssid |-> "", state |-> "none"]
BleError ==
    [type |-> "BleConnectionError", wifi_state_error |-> FALSE, ssid |-> "", state |-> "none"]
WifiStateError(ssid, state) ==
    [type |-> "BleConnectionError", wifi_state_error |-> TRUE, ssid |-> ssid, state |-> state]

\* Line 1098: "provisioning_state=7" in str(e). Only the message of a WiFi
\* state error holds the words "provisioning_state=" or the SSID.
HasState7Text(e) ==
    /\ e.wifi_state_error
    /\ \/ EnumProvisioning[e.state] = 7
       \/ e.ssid = "provisioning_state=7"

\* A wait that takes an error state for a wait_for_response timeout.
ProvisioningVerdict_ErrorsCaught(notification) ==
    IF notification.kind = "provis"
       /\ notification.state \in {"PROVISIONING_SUCCESS_NEW_AP", "PROVISIONING_SUCCESS_OLD_AP"}
    THEN "return"
    ELSE "continue"

\* Lines 899-983: what one notification does to _wait_for_provisioning_complete.
ProvisioningVerdict(notification) ==
    IF notification.kind # "provis" THEN "continue"
    ELSE IF notification.state \in {"PROVISIONING_SUCCESS_NEW_AP", "PROVISIONING_SUCCESS_OLD_AP"}
    THEN "return"
    ELSE IF notification.state = "PROVISIONING_STARTED" THEN "continue"
    ELSE IF notification.state \in
            {"PROVISIONING_ABORTED_BY_SYSTEM", "PROVISIONING_CANCELLED_BY_USER",
             "PROVISIONING_ERROR_FAILED_TO_ASSOCIATE", "PROVISIONING_ERROR_PASSWORD_AUTH",
             "PROVISIONING_ERROR_EULA_BLOCKING", "PROVISIONING_ERROR_NO_INTERNET",
             "PROVISIONING_ERROR_UNSUPPORTED_TYPE"}
    THEN "raise"
    ELSE "continue"

\* Lines 815-854: what one notification does to _wait_for_scan_complete. An
\* aborted scan raises BleConnectionError inside the try block, which the
\* handler at line 856 takes for a wait timeout.
ScanVerdict(notification) ==
    IF notification.kind # "scan" THEN "continue"
    ELSE IF notification.state = "SCANNING_SUCCESS" THEN "return"
    ELSE IF notification.state = "SCANNING_STARTED" THEN "continue"
    ELSE IF notification.state \in {"SCANNING_ABORTED_BY_SYSTEM", "SCANNING_CANCELLED_BY_USER"}
    THEN "caught"
    ELSE "continue"

\* What a Connect* call received last: the outcome of its immediate response
\* (lines 1133-1164, 1211-1242), or inside _wait_for_provisioning_complete a
\* notification, a wait_for_response timeout (line 985) or the expiry found
\* at the top of the loop (line 883).
NoCause == [at |-> "none", kind |-> "none", state |-> "none"]
InitialCause(outcome) == [at |-> "initial", kind |-> outcome, state |-> "none"]
WaitCause(kind, state) == [at |-> "wait", kind |-> kind, state |-> state]

\* How the immediate response to a request can turn out: the write fails,
\* no response arrives, the response is too short, it reports a result other
\* than RESULT_SUCCESS, it reports RESULT_SUCCESS.
InitialOutcomes == {"write_failed", "no_response", "short", "rejected", "accepted"}

\* The three places a Connect* call is made from: line 1045, line 1093,
\* lines 1066 and 1110.
Sites == {"known1", "known2", "new"}

SiteRequest(site) == IF site = "new" THEN "RequestConnectNew" ELSE "RequestConnect"

\* A scan result that sends RequestConnect whatever the flag says.
NextRequestAfterScan_AlwaysKnown(target) == "known2"

\* Lines 1080-1110: the call that follows a scan which found the SSID.
NextRequestAfterScan(target) == IF target = "configured" THEN "known2" ELSE "new"

InitWifi ==
    /\ wifi_pc = "idle"
    /\ wifi_site = "none"
    /\ wifi_ssid = "home"
    /\ has_cohn_credentials = FALSE
    /\ wifi_elapsed = 0
    /\ wifi_sent = <<>>
    /\ wifi_result = NoError
    /\ known1_failed = FALSE
    /\ known2_error = NoError
    /\ scan_end = "none"
    /\ networks = "none"
    /\ connect_cause = NoCause
    /\ scan_cause = NoCause
    /\ connect_outcome = [site |-> "none", end |-> "none", error |-> NoError,
                          cause |-> NoCause]

\* A Connect* call is started: the queue is cleared and the request written
\* (lines 1123-1133, 1195-1211).
StartConnect(site) ==
    /\ wifi_site' = site
    /\ wifi_pc' = "connect_initial"
    /\ wifi_sent' = Append(wifi_sent, SiteRequest(site))
    /\ wifi_elapsed' = 0

\* scan_wifi_networks is started: lines 729-737.
StartScan ==
    /\ wifi_site' = "none"
    /\ wifi_pc' = "scan_initial"
    /\ wifi_sent' = Append(wifi_sent, "RequestStartScan")
    /\ wifi_elapsed' = 0

\* connect_to_wifi ends: it returns (NoError) or raises e.
Finish(e) ==
    /\ wifi_result' = (IF e = NoError THEN [NoError EXCEPT !.type = "returned"] ELSE e)
    /\ wifi_pc' = "done"
    /\ wifi_site' = "none"
    /\ UNCHANGED <<wifi_sent, wifi_elapsed>>

\* The Connect* call at the current site returned normally: connect_to_wifi
\* returns (lines 1049, 1068, 1095, 1111).
AfterConnectReturn ==
    /\ Finish(NoError)
    /\ connect_outcome' = [site |-> wifi_site, end |-> "returned", error |-> NoError,
                           cause |-> connect_cause']
    /\ UNCHANGED <<known1_failed, known2_error>>

\* The Connect* call at the current site raised e. Line 1050: the first
\* RequestConnect's failure leads to the scan. Lines 1096-1106: the second
\* one's failure leads to RequestConnectNew if its text holds
\* "provisioning_state=7" and is raised again otherwise. Lines 1066, 1110:
\* RequestConnectNew's failure is raised.
AfterConnectError(e) ==
    /\ connect_outcome' = [site |-> wifi_site, end |-> "raised", error |-> e,
                           cause |-> connect_cause']
    /\ IF wifi_site = "known1"
       THEN /\ StartScan
            /\ known1_failed' = TRUE
            /\ UNCHANGED <<wifi_result, known2_error>>
       ELSE IF wifi_site = "known2"
       THEN /\ known2_error' = e
            /\ known1_failed' = known1_failed
            /\ IF HasState7Text(e)
               THEN StartConnect("new") /\ wifi_result' = wifi_result
               ELSE Finish(e)
       ELSE /\ Finish(e)
            /\ UNCHANGED <<known1_failed, known2_error>>

\* connect_to_wifi is called: lines 1031-1060 up to the first suspension.
connect_to_wifi ==
    /\ wifi_pc = "idle"
    /\ \E ssid \in Ssids, creds \in BOOLEAN :
        /\ wifi_ssid' = ssid
        /\ has_cohn_credentials' = creds
        /\ IF creds THEN StartConnect("known1") ELSE StartScan
    /\ UNCHANGED <<wifi_result, known1_failed, known2_error, scan_end, networks,
                   connect_cause, scan_cause, connect_outcome>>

\* Lines 1135-1164 and 1213-1242: the immediate response of a Connect* call.
ConnectInitial ==
    /\ wifi_pc = "connect_initial"
    /\ \E outcome \in InitialOutcomes :
        /\ connect_cause' = InitialCause(outcome)
        /\ IF outcome = "accepted"
           THEN /\ wifi_pc' = "connect_wait"
                /\ wifi_elapsed' = 0
                /\ UNCHANGED <<wifi_site, wifi_sent, wifi_result, known1_failed,
                               known2_error, connect_outcome>>
           ELSE AfterConnectError(BleError)
    /\ UNCHANGED <<wifi_ssid, has_cohn_credentials, scan_end, networks, scan_cause>>

\* A Connect* call that lets the TimeoutError of its notification wait out.
TimeoutSwallowed_Propagated ==
    AfterConnectError([NoError EXCEPT !.type = "TimeoutError"])

\* Lines 1174-1182 and 1252-1259: the Connect* call catches the TimeoutError of
\* its notification wait, logs a warning and returns.
TimeoutSwallowed == AfterConnectReturn

\* Lines 883-887 and 1178, 1256: the wait loop finds its timeout exceeded;
\* the Connect* call swallows the TimeoutError and returns.
ProvisioningExpired ==
    /\ wifi_pc = "connect_wait"
    /\ wifi_elapsed > WifiWaitTicks
    /\ connect_cause' = WaitCause("expired", "none")
    /\ TimeoutSwallowed
    /\ UNCHANGED <<wifi_ssid, has_cohn_credentials, scan_end, networks, scan_cause>>

\* Lines 894-897, 985-1002: wait_for_response times out inside the loop.
ProvisioningQuiet ==
    /\ wifi_pc = "connect_wait"
    /\ ~(wifi_elapsed > WifiWaitTicks)
    /\ connect_cause' = WaitCause("timeout", "none")
    /\ IF wifi_elapsed + 1 > WifiWaitTicks
       THEN TimeoutSwallowed
       ELSE /\ wifi_elapsed' = wifi_elapsed + 1
            /\ UNCHANGED <<wifi_pc, wifi_site, wifi_sent, wifi_result, known1_failed,
                           known2_error, connect_outcome>>
    /\ UNCHANGED <<wifi_ssid, has_cohn_credentials, scan_end, networks, scan_cause>>

\* Lines 897-983: wait_for_response returns a notification inside the loop.
ProvisioningNotified ==
    /\ wifi_pc = "connect_wait"
    /\ ~(wifi_elapsed > WifiWaitTicks)
    /\ \E notification \in Notifications, d \in 0..1 :
        LET verdict == ProvisioningVerdict(notification)
        IN  /\ connect_cause' = WaitCause(notification.kind, notification.state)
            /\ IF verdict = "return" THEN AfterConnectReturn
               ELSE IF verdict = "raise"
               THEN AfterConnectError(WifiStateError(wifi_ssid, notification.state))
               ELSE /\ wifi_elapsed' = wifi_elapsed + d
                    /\ UNCHANGED <<wifi_pc, wifi_site, wifi_sent, wifi_result,
                                   known1_failed, known2_error, connect_outcome>>
    /\ UNCHANGED <<wifi_ssid, has_cohn_credentials, scan_end, networks, scan_cause>>

\* Lines 739-760: the immediate response of the scan request. Every failure
\* here is a BleConnectionError, which line 1061 does not catch.
ScanInitial ==
    /\ wifi_pc = "scan_initial"
    /\ \E outcome \in InitialOutcomes :
        /\ scan_cause' = InitialCause(outcome)
        /\ IF outcome = "accepted"
           THEN /\ wifi_pc' = "scan_wait"
                /\ wifi_elapsed' = 0
                /\ UNCHANGED <<wifi_site, wifi_sent, wifi_result, scan_end>>
           ELSE /\ scan_end' = (IF outcome = "rejected" THEN "start_rejected" ELSE "ble_error")
                /\ Finish(BleError)
    /\ UNCHANGED <<wifi_ssid, has_cohn_credentials, known1_failed, known2_error, networks,
                   connect_cause, connect_outcome>>

\* Lines 808-809, 858-859 and 1061-1068: the scan wait times out; TimeoutError
\* reaches connect_to_wifi, which goes on with RequestConnectNew.
ScanTimedOut ==
    /\ scan_end' = "TimeoutError"
    /\ StartConnect("new")
    /\ UNCHANGED wifi_result

ScanExpired ==
    /\ wifi_pc = "scan_wait"
    /\ wifi_elapsed > WifiWaitTicks
    /\ scan_cause' = WaitCause("expired", "none")
    /\ ScanTimedOut
    /\ UNCHANGED <<wifi_ssid, has_cohn_credentials, known1_failed, known2_error, networks,
                   connect_cause, connect_outcome>>

\* Lines 811-813, 856-861: wait_for_response times out inside the scan wait.
ScanQuiet ==
    /\ wifi_pc = "scan_wait"
    /\ ~(wifi_elapsed > WifiWaitTicks)
    /\ scan_cause' = WaitCause("timeout", "none")
    /\ IF wifi_elapsed + 1 > WifiWaitTicks
       THEN ScanTimedOut
       ELSE /\ wifi_elapsed' = wifi_elapsed + 1
            /\ UNCHANGED <<wifi_pc, wifi_site, wifi_sent, wifi_result, scan_end>>
    /\ UNCHANGED <<wifi_ssid, has_cohn_credentials, known1_failed, known2_error, networks,
                   connect_cause, connect_outcome>>

\* Lines 813-854 and 762-775: a notification inside the scan wait; on
\* SCANNING_SUCCESS the entries are requested.
ScanNotified ==
    /\ wifi_pc = "scan_wait"
    /\ ~(wifi_elapsed > WifiWaitTicks)
    /\ \E notification \in Notifications, d \in 0..1 :
        LET verdict == ScanVerdict(notification)
        IN  /\ scan_cause' = WaitCause(notification.kind, notification.state)
            /\ IF verdict = "return"
               THEN /\ wifi_pc' = "scan_entries"
                    /\ wifi_sent' = Append(wifi_sent, "RequestGetApEntries")
                    /\ UNCHANGED <<wifi_site, wifi_elapsed, wifi_result, scan_end>>
               ELSE IF verdict = "caught" /\ wifi_elapsed + d > WifiWaitTicks
               THEN ScanTimedOut
               ELSE /\ wifi_elapsed' = wifi_elapsed + d
                    /\ UNCHANGED <<wifi_pc, wifi_site, wifi_sent, wifi_result, scan_end>>
    /\ UNCHANGED <<wifi_ssid, has_cohn_credentials, known1_failed, known2_error, networks,
                   connect_cause, connect_outcome>>

\* Lines 769-790 and 1070-1110: the entries arrive, or the query raises; the
\* target SSID is absent, flagged configured or not flagged.
ScanEntries ==
    /\ wifi_pc = "scan_entries"
    /\ \/ /\ scan_end' = "ble_error"
          /\ networks' = networks
          /\ Finish(BleError)
       \/ \E target \in {"absent", "configured", "not_configured"} :
            /\ scan_end' = "ok"
            /\ networks' = target
            /\ IF target = "absent"
               THEN Finish(BleError)
               ELSE StartConnect(NextRequestAfterScan(target)) /\ wifi_result' = wifi_result
    /\ UNCHANGED <<wifi_ssid, has_cohn_credentials, known1_failed, known2_error,
                   connect_cause, scan_cause, connect_outcome>>

----------------------------------------------------------------------------
(* GoProClient: open, switch_to_online_mode and the credential store,      *)
(* client.py:159-519 and 1141-1235, config.py:105-234. One client          *)
(* operation runs at a time; the camera's replies are arbitrary.           *)

\* range(5) of the IP wait loop of open (client.py:300).
IpWaitAttempts == 5

\* TimeoutConfig.ip_wait_max_attempts (config.py:98): 5 unless the caller
\* of GoProClient passes a TimeoutConfig with another value.
InitConfig(values) == ip_wait_max_attempts \in values

\* Values of the fields of a record in the store: absent or present. The stored
\* certificate and address differ from the ones the camera reports now.
StoredIps == {<<>>, <<"9">>}
StoredCerts == {<<>>, <<"C", "1">>}
CameraCerts == {<<>>, <<"C", "2">>}

Records ==
    [ip_address : StoredIps, username : Texts, password : Texts, certificate : StoredCerts]

\* What the TinyDB table can hold for one serial: nothing or one record.
Stores == {{}} \cup {{r} : r \in Records}

\* CohnConfigManager.load: None (the empty set) or the record, unvalidated.
load(table) == table

\* CohnConfigManager.save: upsert by serial.
save(table, record) == {record}

\* client.py:251-253 and 474-476: credentials is not None and
\* credentials.certificate and credentials.username and credentials.password.
has_valid_credentials(c) ==
    /\ c # {}
    /\ \A r \in c : bool(r.certificate) /\ bool(r.username) /\ bool(r.password)

\* A refresh that takes nothing from the old record.
RefreshedCredentials_NewCertificate(old, st) ==
    [ip_address |-> st.ipaddress,
     username |-> st.username,
     password |-> st.password,
     certificate |-> <<>>]

\* client.py:328-333 and 500-505: the refreshed record keeps the old certificate.
RefreshedCredentials(old, st) ==
    [ip_address |-> st.ipaddress,
     username |-> st.username,
     password |-> st.password,
     certificate |-> old.certificate]

\* The parts of the client an operation on credentials leaves alone.
connVars == <<ble_is_connected, ble_client, http_is_connected, http_session>>

InitClientWith(tables, modes, cameras, managers) ==
    /\ camera \in cameras
    /\ client_pc = "idle"
    /\ client_op = "none"
    /\ client_result = "none"
    /\ client_log = <<>>
    /\ offline_mode \in modes
    /\ store \in tables
    /\ the_credentials = {}
    /\ loaded = {}
    /\ status = NoStatus
    /\ ip_attempt = 0
    /\ ready_elapsed = 0
    /\ \E m \in managers :
        /\ ble_is_connected = m.ble
        /\ ble_client = m.client
        /\ http_is_connected = m.http
        /\ http_session = m.session
        /\ http_credentials = m.credentials

\* The managers of a client that has just been constructed.
Constructed ==
    [ble |-> FALSE, client |-> FALSE, http |-> FALSE, session |-> FALSE, credentials |-> {}]

\* A client that has just been constructed (client.py:96-141).
InitClient(tables, modes, cameras) == InitClientWith(tables, modes, cameras, {Constructed})

\* The running operation ends: it returns or raises result.
ClientEnd(result) ==
    /\ client_pc' = "idle"
    /\ client_result' = result

\* client.py:248-253 and 472-476: load the record and choose the branch.
LoadBranch(log) ==
    LET c == load(store) IN
    /\ loaded' = c
    /\ the_credentials' = c
    /\ client_log' = log \o <<"load">>
    /\ client_pc' = IF has_valid_credentials(c) THEN "refresh" ELSE "fetch_status"
    /\ client_result' = "none"

\* client.py:159-253, up to the first COHN request. wifi says whether an
\* SSID was given and how setup_wifi ends; connected says how ble.connect ends.
open ==
    /\ client_pc = "idle"
    /\ client_op' = "open"
    /\ status' = NoStatus
    /\ ip_attempt' = 0
    /\ \E wifi \in {"none", "no_password", "joined", "failed"}, connected \in BOOLEAN :
        IF wifi = "no_password"
        THEN /\ ClientEnd("ValueError")
             /\ client_log' = <<>>
             /\ UNCHANGED <<ble_is_connected, ble_client, the_credentials, loaded>>
        ELSE IF ~ble_is_connected /\ ~connected
        THEN /\ ClientEnd("BleConnectionError")
             /\ client_log' = <<"ble.connect">>
             /\ ble_client' = FALSE
             /\ UNCHANGED <<ble_is_connected, the_credentials, loaded>>
        ELSE /\ ble_is_connected' = TRUE
             /\ ble_client' = TRUE
             /\ IF offline_mode
                THEN /\ ClientEnd("returned")
                     /\ client_log' = <<"ble.connect">>
                     /\ UNCHANGED <<the_credentials, loaded>>
                ELSE IF wifi = "failed"
                THEN /\ ClientEnd("BleConnectionError")
                     /\ client_log' = <<"ble.connect", "load", "setup_wifi">>
                     /\ UNCHANGED <<the_credentials, loaded>>
                ELSE LoadBranch(IF wifi = "joined"
                                THEN <<"ble.connect", "load", "setup_wifi">>
                                ELSE <<"ble.connect">>)
    /\ UNCHANGED <<offline_mode, store, ready_elapsed, http_is_connected, http_session,
                   http_credentials>>

\* client.py:420-476, up to the first COHN request.
switch_to_online_mode ==
    /\ client_pc = "idle"
    /\ client_op' = "switch_to_online_mode"
    /\ status' = NoStatus
    /\ ip_attempt' = 0
    /\ \E wifi \in {"none", "no_password", "joined", "failed"} :
        IF ~offline_mode
        THEN /\ ClientEnd("returned")
             /\ client_log' = <<>>
             /\ UNCHANGED <<the_credentials, loaded>>
        ELSE IF wifi = "no_password"
        THEN /\ ClientEnd("ValueError")
             /\ client_log' = <<>>
             /\ UNCHANGED <<the_credentials, loaded>>
        ELSE IF ~ble_is_connected
        THEN /\ ClientEnd("BleConnectionError")
             /\ client_log' = <<>>
             /\ UNCHANGED <<the_credentials, loaded>>
        ELSE IF wifi = "failed"
        THEN /\ ClientEnd("BleConnectionError")
             /\ client_log' = <<"load", "setup_wifi">>
             /\ UNCHANGED <<the_credentials, loaded>>
        ELSE LoadBranch(IF wifi = "joined" THEN <<"load", "setup_wifi">> ELSE <<>>)
    /\ UNCHANGED <<offline_mode, store, ready_elapsed, connVars, http_credentials>>

\* client.py:265-279 and 484-486: whatever the fetch raises becomes a
\* BleConnectionError of open / switch_to_online_mode.
FetchFails(sent) ==
    /\ ClientEnd("BleConnectionError")
    /\ client_log' = client_log \o <<sent>>
    /\ UNCHANGED <<client_op, offline_mode, store, the_credentials, loaded, ip_attempt,
                   ready_elapsed, connVars, http_credentials>>

\* What a camera can hold. A camera without an address yet is one whose
\* every reply has an empty ipaddress.
Cameras ==
    [ip_address : IpAddresses \ {<<>>}, username : Texts, password : Texts,
     certificate : CameraCerts]

\* A camera that is fully provisioned.
ProvisionedCamera ==
    [ip_address |-> <<"1", "0">>, username |-> <<"x">>, password |-> <<"x">>,
     certificate |-> <<"C", "2">>]

\* The status replies the camera can give: its username and password, and
\* its address or none yet; status and state are arbitrary.
CameraReplies ==
    {r \in StatusReplies :
        /\ r.username = camera.username
        /\ r.password = camera.password
        /\ r.ipaddress \in {<<>>, camera.ip_address}}

\* The first status query of the fetch reads status only.
FirstReplies ==
    {r \in PollReplies : r.state = "COHN_STATE_Idle" /\ r.ipaddress = <<>>}
\* The status query of the refresh reads state, ipaddress, username and password.
RefreshReplies == {r \in CameraReplies : r.status = "COHN_PROVISIONED"}

\* A fetch that creates a certificate whatever the camera reports.
AfterFirstStatus_AlwaysCreate(reply) == "fetch_create"

\* client.py:1164-1167: is_provisioned skips the creation of a certificate.
AfterFirstStatus(reply) ==
    IF reply.status = "COHN_PROVISIONED" THEN "fetch_wait" ELSE "fetch_create"

\* _get_cohn_credentials_from_camera, client.py:1163: the status query.
FetchStatus ==
    /\ client_pc = "fetch_status"
    /\ \/ /\ FetchFails("get_cohn_status")
          /\ status' = QueryRaised
       \/ \E reply \in FirstReplies :
            /\ status' = reply
            /\ client_log' = client_log \o <<"get_cohn_status">>
            /\ client_pc' = AfterFirstStatus(reply)
            /\ UNCHANGED <<client_op, client_result, offline_mode, store, the_credentials,
                           loaded, ip_attempt, ready_elapsed, connVars, http_credentials>>

\* client.py:1167-1179: REQUEST_CREATE_COHN_CERT with override, sent only when
\* the camera said it is not provisioned.
FetchCreate ==
    /\ client_pc = "fetch_create"
    /\ UNCHANGED status
    /\ \/ FetchFails("create_cert")
       \/ /\ client_log' = client_log \o <<"create_cert">>
          /\ client_pc' = "fetch_wait"
          /\ UNCHANGED <<client_op, client_result, offline_mode, store, the_credentials,
                         loaded, ip_attempt, ready_elapsed, connVars, http_credentials>>

\* client.py:1184: _wait_for_cohn_provisioned returns, or raises on timeout.
FetchWait ==
    /\ client_pc = "fetch_wait"
    /\ UNCHANGED status
    /\ \/ FetchFails("wait_provisioned")
       \/ /\ client_log' = client_log \o <<"wait_provisioned">>
          /\ client_pc' = "fetch_cert"
          /\ UNCHANGED <<client_op, client_result, offline_mode, store, the_credentials,
                         loaded, ip_attempt, ready_elapsed, connVars, http_credentials>>

\* client.py:1187-1194: the certificate query. The certificate is kept in the
\* local credentials until the status arrives.
FetchCert ==
    /\ client_pc = "fetch_cert"
    /\ UNCHANGED status
    /\ \/ FetchFails("get_cert")
       \/ \E cert \in {<<>>, camera.certificate} :
            /\ the_credentials' = {Credentials(NoStatus, cert)}
            /\ client_log' = client_log \o <<"get_cert">>
            /\ client_pc' = "fetch_final"
            /\ UNCHANGED <<client_op, client_result, offline_mode, store, loaded,
                           ip_attempt, ready_elapsed, connVars, http_credentials>>

\* An end that switches the mode without handing the credentials over.
HandOver_ModeOnly(c, log) ==
    /\ UNCHANGED http_credentials
    /\ client_log' = log
    /\ offline_mode' = IF client_op = "switch_to_online_mode" THEN FALSE ELSE offline_mode
    /\ ClientEnd("returned")

\* The end of open (client.py:347) and of switch_to_online_mode
\* (client.py:514-518): the credentials go to the HTTP manager.
HandOver(c, log) ==
    /\ http_credentials' = c
    /\ client_log' = log \o <<"set_credentials">>
    /\ offline_mode' = IF client_op = "switch_to_online_mode" THEN FALSE ELSE offline_mode
    /\ ClientEnd("returned")

\* client.py:1197-1235, then 262 and 347 (482 and 514-518): the final status
\* query, the validation, the save and the hand-over.
FetchFinal ==
    /\ client_pc = "fetch_final"
    /\ \/ /\ FetchFails("get_status")
          /\ status' = QueryRaised
       \/ \E reply \in FinalReplies \cap CameraReplies :
            LET c == Credentials(reply, (CHOOSE r \in the_credentials : TRUE).certificate) IN
            /\ status' = reply
            /\ IF CredentialsComplete(c)
               THEN /\ the_credentials' = {c}
                    /\ store' = save(store, c)
                    /\ HandOver({c}, client_log \o <<"get_status", "save">>)
               ELSE /\ ClientEnd("BleConnectionError")
                    /\ client_log' = client_log \o <<"get_status">>
                    /\ UNCHANGED <<offline_mode, store, the_credentials, http_credentials>>
            /\ UNCHANGED <<client_op, loaded, ip_attempt, ready_elapsed, connVars>>

\* client.py:312-334 and 499-509: with an address the record is rebuilt and
\* saved, without one (or after an exception, 337-342 and 510-511) the loaded
\* record is used as it is.
FinishRefresh(st, got_ip) ==
    LET old == CHOOSE r \in the_credentials : TRUE IN
    IF got_ip
    THEN /\ the_credentials' = {RefreshedCredentials(old, st)}
         /\ store' = save(store, RefreshedCredentials(old, st))
         /\ HandOver({RefreshedCredentials(old, st)},
                     client_log \o <<"get_cohn_status", "save">>)
    ELSE /\ UNCHANGED <<the_credentials, store>>
         /\ HandOver(the_credentials, client_log \o <<"get_cohn_status">>)

\* client.py:289-300 and 488-497: the status query of the refresh as the
\* operation op makes it. Only open waits for an address while the camera is
\* connecting.
RefreshAs(op) ==
    /\ client_pc = "refresh"
    /\ \/ /\ status' = QueryRaised
          /\ FinishRefresh(QueryRaised, FALSE)
          /\ UNCHANGED ip_attempt
       \/ \E reply \in RefreshReplies :
            /\ status' = reply
            /\ IF /\ op = "open"
                  /\ reply.state = "COHN_STATE_ConnectingToNetwork"
                  /\ ~has_ip(reply)
               THEN /\ client_pc' = "ip_wait"
                    /\ client_log' = client_log \o <<"get_cohn_status">>
                    /\ ip_attempt' = 0
                    /\ UNCHANGED <<client_result, offline_mode, store, the_credentials,
                                   http_credentials>>
               ELSE /\ FinishRefresh(reply, has_ip(reply))
                    /\ UNCHANGED ip_attempt
    /\ UNCHANGED <<client_op, loaded, ready_elapsed, connVars>>

\* The refresh of the running operation.
Refresh == RefreshAs(client_op)

\* client.py:302-310: one round of the IP wait loop of open.
IpWait ==
    /\ client_pc = "ip_wait"
    /\ ip_attempt' = ip_attempt + 1
    /\ \/ /\ status' = QueryRaised
          /\ FinishRefresh(QueryRaised, FALSE)
       \/ \E reply \in RefreshReplies :
            /\ status' = reply
            /\ IF has_ip(reply) \/ ip_attempt + 1 = IpWaitAttempts
               THEN FinishRefresh(reply, has_ip(reply))
               ELSE /\ client_log' = client_log \o <<"get_cohn_status">>
                    /\ UNCHANGED <<client_pc, client_result, offline_mode, store,
                                   the_credentials, http_credentials>>
    /\ UNCHANGED <<client_op, loaded, ready_elapsed, connVars>>

----------------------------------------------------------------------------
(* GoProClient: the camera operations, start_preview and close             *)
(* (client.py:367-418 and 523-1136), on top of the lazy connection of the  *)
(* HTTP manager (http_manager.py:91-152, 299-314, 447-470) and of          *)
(* disconnect and _on_disconnected of the BLE manager                      *)
(* (ble_manager.py:270-298).                                               *)

\* camera_ready_timeout, in poll intervals (camera_ready_poll_interval).
CameraReadyTicks == 2

\* The methods of GoProClient whose first statement is _require_online_mode.
GatedMethods ==
    {"set_preview_stream", "get_camera_state", "get_camera_info", "set_keep_alive",
     "get_date_time", "get_setting", "set_setting", "get_preset_status", "load_preset",
     "load_preset_group", "set_digital_zoom", "reboot", "get_media_list", "download_file",
     "delete_file", "delete_all_media", "get_media_metadata", "get_last_captured_media",
     "set_turbo_mode", "webcam_start", "start_webcam", "webcam_stop", "webcam_status",
     "webcam_preview", "webcam_exit", "get_webcam_version"}

\* The methods that use BLE when offline and HTTP when online.
DualMethods == {"set_shutter", "set_date_time"}

\* The methods that do nothing but call another method.
Aliases ==
    {"stop_preview", "get_status", "get_parsed_state", "list_media", "download_media",
     "delete_media", "stop_webcam", "start_recording", "stop_recording"}

\* The method an operation ends up in.
Delegate(name) ==
    CASE name = "stop_preview" -> "set_preview_stream"
      [] name \in {"get_status", "get_parsed_state"} -> "get_camera_state"
      [] name = "list_media" -> "get_media_list"
      [] name = "download_media" -> "download_file"
      [] name = "delete_media" -> "delete_file"
      [] name = "stop_webcam" -> "webcam_stop"
      [] name \in {"start_recording", "stop_recording"} -> "set_shutter"
      [] OTHER -> name

Operations == GatedMethods \cup DualMethods \cup Aliases \cup {"tag_hilight"}

\* A check that lets every call through.
require_online_mode_Never(offline) == FALSE

\* _require_online_mode, client.py:402: raises OfflineModeError when offline.
require_online_mode(offline) == offline

\* What the camera does to one HTTP exchange: whether the readiness probe of
\* connect succeeds and whether the request itself succeeds.
HttpEnvs == [probe : BOOLEAN, request : BOOLEAN]

\* The HTTP manager as far as a request changes it.
HttpState == [connected |-> http_is_connected, session |-> http_session]

\* HttpConnectionManager.connect, http_manager.py:98-152, started from h.
connect(h, env) ==
    IF h.connected
    THEN [connected |-> TRUE, session |-> h.session, result |-> "ok", log |-> <<>>]
    ELSE IF http_credentials = {}
    THEN [connected |-> FALSE, session |-> h.session, result |-> "HttpConnectionError",
          log |-> <<"http.connect">>]
    ELSE [connected |-> env.probe, session |-> TRUE,
          result |-> IF env.probe THEN "ok" ELSE "HttpConnectionError",
          log |-> <<"http.connect", "probe">>]

\* A context that connects on every request.
aenter_AlwaysConnect(h, env) ==
    LET c == connect([connected |-> FALSE, session |-> h.session], env) IN
    IF c.result # "ok" THEN c
    ELSE [c EXCEPT !.result = IF env.request THEN "ok" ELSE "HttpConnectionError",
                   !.log = c.log \o <<"request">>]

\* _AutoConnectContext.__aenter__, http_manager.py:447-470 (and download,
\* 385-390): connect if not connected, then issue the request.
aenter(h, env) ==
    LET c == IF ~h.connected THEN connect(h, env)
             ELSE [connected |-> TRUE, session |-> h.session, result |-> "ok", log |-> <<>>] IN
    IF c.result # "ok" THEN c
    ELSE IF ~c.session THEN [c EXCEPT !.result = "HttpConnectionError"]
    ELSE [c EXCEPT !.result = IF env.request THEN "ok" ELSE "HttpConnectionError",
                   !.log = c.log \o <<"request">>]

\* What a camera operation is recorded as: the online-only methods, the
\* methods with a BLE branch, and the methods that always use HTTP.
OperationKind(method) ==
    IF method \in GatedMethods THEN "online_only"
    ELSE IF method \in DualMethods THEN "dual"
    ELSE "http_only"

\* The variables the camera operations never touch.
credVars == <<offline_mode, store, ble_is_connected, ble_client, http_credentials>>

\* The locals of open / switch_to_online_mode are gone once another
\* operation runs.
ForgetLocals ==
    /\ the_credentials' = {}
    /\ loaded' = {}
    /\ status' = NoStatus
    /\ ip_attempt' = 0

\* client.py:523-1136 except start_preview: one call of a camera operation.
operation ==
    /\ client_pc = "idle"
    /\ \E kind \in {OperationKind(Delegate(name)) : name \in Operations} :
        /\ client_op' = kind
        /\ IF kind = "online_only" /\ require_online_mode(offline_mode)
           THEN /\ ClientEnd("OfflineModeError")
                /\ client_log' = <<>>
                /\ UNCHANGED <<http_is_connected, http_session>>
           ELSE IF kind = "dual" /\ offline_mode
           THEN \E written \in BOOLEAN :
                /\ ClientEnd(IF written THEN "returned" ELSE "BleConnectionError")
                /\ client_log' = <<"ble.write">>
                /\ UNCHANGED <<http_is_connected, http_session>>
           ELSE \E env \in HttpEnvs :
                LET r == aenter(HttpState, env) IN
                /\ ClientEnd(IF r.result = "ok" THEN "returned" ELSE r.result)
                /\ client_log' = r.log
                /\ http_is_connected' = r.connected
                /\ http_session' = r.session
    /\ ForgetLocals
    /\ UNCHANGED <<credVars, ready_elapsed>>

\* What the status check of start_preview can find.
PreviewStates == {"running", "busy", "stopped"}

\* client.py:581-620 in online mode: the status check, the stop of the
\* preview stream and the stop of the recording, each through the HTTP
\* manager and each swallowing every exception; a running preview ends
\* start_preview after the first request.
Preparations(h) ==
    {LET r1 == aenter(h, e1)
         r2 == aenter(r1, e2)
         r3 == aenter(r2, e3) IN
     IF r1.result = "ok" /\ preview = "running"
     THEN [r1 EXCEPT !.result = "returned"]
     ELSE [r3 EXCEPT !.result = "none", !.log = r1.log \o r2.log \o r3.log] :
     e1 \in HttpEnvs, e2 \in HttpEnvs, e3 \in HttpEnvs, preview \in PreviewStates}

\* client.py:559-620: the status check, the stop of the preview stream and
\* the stop of the recording.
start_preview ==
    /\ client_pc = "idle"
    /\ client_op' = "start_preview"
    /\ ready_elapsed' = 0
    /\ ForgetLocals
    /\ IF offline_mode
       THEN \* get_camera_state and set_preview_stream raise OfflineModeError,
            \* set_shutter takes the BLE branch
            /\ client_log' = <<"ble.write">>
            /\ client_pc' = "wait_ready"
            /\ client_result' = "none"
            /\ UNCHANGED <<http_is_connected, http_session>>
       ELSE \E r \in Preparations(HttpState) :
            /\ client_log' = r.log
            /\ client_pc' = IF r.result = "returned" THEN "idle" ELSE "wait_ready"
            /\ client_result' = r.result
            /\ http_is_connected' = r.connected
            /\ http_session' = r.session
    /\ UNCHANGED credVars

\* client.py:656-692: one round of _wait_for_camera_ready.
WaitReady ==
    /\ client_pc = "wait_ready"
    /\ IF ready_elapsed >= CameraReadyTicks
       THEN /\ ClientEnd("HttpConnectionError")
            /\ UNCHANGED <<client_log, ready_elapsed, http_is_connected, http_session>>
       ELSE \E env \in HttpEnvs, ready \in BOOLEAN :
            IF require_online_mode(offline_mode)
            THEN \* get_camera_state raises, the loop logs a warning and sleeps
                 /\ ready_elapsed' = ready_elapsed + 1
                 /\ UNCHANGED <<client_pc, client_result, client_log, http_is_connected,
                                http_session>>
            ELSE LET r == aenter(HttpState, env) IN
                 /\ client_log' = client_log \o r.log
                 /\ http_is_connected' = r.connected
                 /\ http_session' = r.session
                 /\ client_result' = "none"
                 /\ IF r.result = "ok" /\ ready
                    THEN client_pc' = "start_stream" /\ UNCHANGED ready_elapsed
                    ELSE client_pc' = "wait_ready" /\ ready_elapsed' = ready_elapsed + 1
    /\ UNCHANGED <<client_op, credVars, the_credentials, loaded, status, ip_attempt>>

\* client.py:631-637: set_preview_stream(True, port) and the URL.
StartStream ==
    /\ client_pc = "start_stream"
    /\ \E env \in HttpEnvs :
        LET r == aenter(HttpState, env) IN
        IF require_online_mode(offline_mode)
        THEN /\ ClientEnd("OfflineModeError")
             /\ UNCHANGED <<client_log, http_is_connected, http_session>>
        ELSE /\ ClientEnd(IF r.result = "ok" THEN "returned" ELSE r.result)
             /\ client_log' = client_log \o r.log
             /\ http_is_connected' = r.connected
             /\ http_session' = r.session
    /\ UNCHANGED <<client_op, credVars, ready_elapsed, the_credentials, loaded, status,
                   ip_attempt>>

\* HttpConnectionManager.disconnect, http_manager.py:299-314. raised says
\* whether session.close() raises; h is the manager's state afterwards.
http_disconnect(raised) ==
    IF ~http_is_connected THEN HttpState
    ELSE IF http_session /\ raised THEN HttpState
    ELSE [connected |-> FALSE, session |-> FALSE]

\* BleConnectionManager.disconnect, ble_manager.py:270-286. raised says
\* whether the BleakClient's disconnect raises.
ble_disconnect(raised) ==
    IF ~ble_is_connected THEN [connected |-> ble_is_connected, client |-> ble_client]
    ELSE IF ble_client /\ raised THEN [connected |-> ble_is_connected, client |-> ble_client]
    ELSE [connected |-> FALSE, client |-> FALSE]

\* GoProClient.close, client.py:367-371.
close ==
    /\ client_pc = "idle"
    /\ client_op' = "close"
    /\ \E http_raised \in BOOLEAN, ble_raised \in BOOLEAN :
        LET h == http_disconnect(http_raised)
            b == ble_disconnect(ble_raised) IN
        /\ http_is_connected' = h.connected
        /\ http_session' = h.session
        /\ ble_is_connected' = b.connected
        /\ ble_client' = b.client
        /\ client_log' =
             (IF http_is_connected /\ http_session THEN <<"session.close">> ELSE <<>>)
             \o (IF ble_is_connected /\ ble_client THEN <<"ble.disconnect">> ELSE <<>>)
    /\ ClientEnd("returned")
    /\ ForgetLocals
    /\ UNCHANGED <<offline_mode, store, ready_elapsed, http_credentials>>

\* BleConnectionManager._on_disconnected, ble_manager.py:288-298: the link
\* dropped and bleak calls back.
on_disconnected ==
    /\ ble_is_connected
    /\ ble_is_connected' = FALSE
    /\ UNCHANGED <<client_pc, client_op, client_result, client_log, offline_mode, store,
                   the_credentials, loaded, status, ip_attempt, ready_elapsed, ble_client,
                   http_is_connected, http_session, http_credentials>>

----------------------------------------------------------------------------
(* The readiness probe of the HTTP manager: _wait_for_https_ready,         *)
(* http_manager.py:177-297, with the defaults of TimeoutConfig. Sleeps are *)
(* counted in units of http_keepalive_retry_interval.                      *)

http_keepalive_max_retries == 12
http_keepalive_timeout_threshold == 4
http_keepalive_fatal_threshold == 6

\* How one GET of /gopro/version can end: status 200, another status, a
\* timeout, another retryable exception, an exception that is not retryable.
ProbeOutcomes == {"200", "status", "timeout", "retryable", "not_retryable"}

\* A probe that never gives up early.
ReachedFatal_Never(count) == FALSE

\* Lines 259-266: the fatal test sits inside the warning test.
ReachedFatal(count) ==
    /\ count >= http_keepalive_timeout_threshold
    /\ count >= http_keepalive_fatal_threshold

\* Line 279: progressive backoff.
wait_time(n) == IF n <= 3 THEN 1 ELSE n - 2

InitProbe ==
    /\ probe_pc = "idle"
    /\ attempt = 0
    /\ consecutive_timeouts = 0
    /\ timeouts_in_a_row = 0
    /\ probe_gets = 0
    /\ probe_slept = 0
    /\ probe_result = "none"

\* Lines 196-204: a call of _wait_for_https_ready begins.
wait_for_https_ready ==
    /\ probe_pc \in {"idle", "done"}
    /\ probe_pc' = "probing"
    /\ attempt' = 1
    /\ consecutive_timeouts' = 0
    /\ timeouts_in_a_row' = 0
    /\ probe_gets' = 0
    /\ probe_slept' = 0
    /\ probe_result' = "none"

\* The probe ends: it returns ("ready") or raises HttpConnectionError.
ProbeEnd(result) ==
    /\ probe_pc' = "done"
    /\ probe_result' = result
    /\ UNCHANGED <<attempt, probe_slept>>

\* The loop goes on to the next attempt, or falls out of the for statement
\* and raises at line 297.
ProbeContinue(slept) ==
    IF attempt < http_keepalive_max_retries
    THEN /\ attempt' = attempt + 1
         /\ probe_slept' = probe_slept + slept
         /\ UNCHANGED <<probe_pc, probe_result>>
    ELSE ProbeEnd("startup_timeout")

\* Lines 204-295: one attempt of the loop.
ProbeAttempt ==
    /\ probe_pc = "probing"
    /\ probe_gets' = probe_gets + 1
    /\ \E outcome \in ProbeOutcomes :
        /\ timeouts_in_a_row' = IF outcome = "timeout" THEN timeouts_in_a_row + 1 ELSE 0
        /\ CASE outcome = "200" ->
                  /\ ProbeEnd("ready")
                  /\ UNCHANGED consecutive_timeouts
             [] outcome = "status" ->
                  /\ consecutive_timeouts' = 0
                  /\ ProbeContinue(0)
             [] outcome = "not_retryable" ->
                  /\ ProbeEnd("connection_failed")
                  /\ UNCHANGED consecutive_timeouts
             [] outcome \in {"timeout", "retryable"} ->
                  IF attempt < http_keepalive_max_retries
                  THEN LET count == IF outcome = "timeout"
                                    THEN consecutive_timeouts + 1 ELSE 0 IN
                       /\ consecutive_timeouts' = count
                       /\ IF ReachedFatal(count)
                          THEN ProbeEnd("unreachable")
                          ELSE ProbeContinue(wait_time(attempt))
                  ELSE /\ ProbeEnd("startup_timeout")
                       /\ UNCHANGED consecutive_timeouts

----------------------------------------------------------------------------
(* BleConnectionManager.connect, ble_manager.py:96-268: tasks calling      *)
(* connect on one manager, a radio environment and a link that can drop.   *)

\* retries = 3, ble_manager.py:109.
retries == 3

\* Scans are counted up to MaxScans, link drops happen at most MaxDrops times.
MaxScans == 2
MaxDrops == 1

\* The radio environment: a matching device is advertised (a scan can still
\* miss it or fail), or none ever is and every scan returns without a match.
Radios == {"advertising", "silent"}

NoTask == 0

InitBle(radios) ==
    /\ ble_lock = NoTask
    /\ conn_pc = [t \in Tasks |-> "idle"]
    /\ retry = [t \in Tasks |-> 0]
    /\ radio \in radios
    /\ scans = 0
    /\ link_up = FALSE
    /\ established = [t \in Tasks |-> FALSE]
    /\ n_drops = 0

\* The client variables connect never touches.
bleFrame == <<client_pc, client_op, client_result, client_log, offline_mode, store,
              the_credentials, loaded, status, ip_attempt, ready_elapsed,
              http_is_connected, http_session, http_credentials>>

\* A task calls connect and waits for _ble_lock (line 104).
CallConnect(t) ==
    /\ conn_pc[t] = "idle"
    /\ conn_pc' = [conn_pc EXCEPT ![t] = "lock"]
    /\ UNCHANGED <<ble_lock, retry, radio, scans, link_up, established, n_drops,
                   ble_is_connected, ble_client, bleFrame>>

\* A connect that scans although the manager is connected.
AlreadyConnected_Ignored(connected) == FALSE

\* Lines 105-107: if self._is_connected: return.
AlreadyConnected(connected) == connected

\* Lines 104-109: the lock is acquired; a connected manager returns at once
\* (and releases the lock), otherwise the retry loop begins.
AcquireLock(t) ==
    /\ conn_pc[t] = "lock"
    /\ ble_lock = NoTask
    /\ IF AlreadyConnected(ble_is_connected)
       THEN /\ conn_pc' = [conn_pc EXCEPT ![t] = "returned"]
            /\ UNCHANGED <<ble_lock, retry>>
       ELSE /\ conn_pc' = [conn_pc EXCEPT ![t] = "scan"]
            /\ ble_lock' = t
            /\ retry' = [retry EXCEPT ![t] = 0]
    /\ UNCHANGED <<radio, scans, link_up, established, n_drops, ble_is_connected,
                   ble_client, bleFrame>>

\* Lines 241-268: the except clause of one attempt: the client is dropped,
\* then either the next attempt begins after the backoff or the budget is
\* exhausted and BleConnectionError is raised (which releases the lock).
AttemptFailed(t) ==
    /\ ble_client' = FALSE
    /\ link_up' = FALSE
    /\ IF retry[t] < retries - 1
       THEN /\ retry' = [retry EXCEPT ![t] = retry[t] + 1]
            /\ conn_pc' = [conn_pc EXCEPT ![t] = "scan"]
            /\ UNCHANGED ble_lock
       ELSE /\ conn_pc' = [conn_pc EXCEPT ![t] = "raised"]
            /\ ble_lock' = NoTask
            /\ UNCHANGED retry
    /\ UNCHANGED <<radio, established, n_drops, ble_is_connected, bleFrame>>

\* Lines 137-161: one round of the scan loop. A round that finds no matching
\* device goes round again; the loop has no other exit.
Scan(t) ==
    /\ conn_pc[t] = "scan"
    /\ scans' = IF scans < MaxScans THEN scans + 1 ELSE scans
    /\ \/ /\ radio = "advertising"
          /\ conn_pc' = [conn_pc EXCEPT ![t] = "link"]
          /\ UNCHANGED <<ble_lock, retry, radio, link_up, established, n_drops,
                         ble_is_connected, ble_client, bleFrame>>
       \/ /\ UNCHANGED <<conn_pc, ble_lock, retry, radio, link_up, established, n_drops,
                         ble_is_connected, ble_client, bleFrame>>
       \/ /\ radio = "advertising"
          /\ AttemptFailed(t)

\* Lines 164-193: the BleakClient is created and connects, or fails to.
Link(t) ==
    /\ conn_pc[t] = "link"
    /\ UNCHANGED scans
    /\ \/ /\ ble_client' = TRUE
          /\ link_up' = TRUE
          /\ conn_pc' = [conn_pc EXCEPT ![t] = "pair"]
          /\ UNCHANGED <<ble_lock, retry, radio, established, n_drops, ble_is_connected,
                         bleFrame>>
       \/ AttemptFailed(t)

\* Lines 196-239: pairing (failures tolerated), the check that the link is
\* still up, the notification subscriptions, and _is_connected = True.
PairAndSubscribe(t) ==
    /\ conn_pc[t] = "pair"
    /\ UNCHANGED scans
    /\ \/ /\ link_up
          /\ ble_is_connected' = TRUE
          /\ established' = [established EXCEPT ![t] = TRUE]
          /\ conn_pc' = [conn_pc EXCEPT ![t] = "returned"]
          /\ ble_lock' = NoTask
          /\ UNCHANGED <<retry, radio, link_up, n_drops, ble_client, bleFrame>>
       \/ AttemptFailed(t)

\* The link drops and bleak calls _on_disconnected (lines 288-298).
LinkDrops ==
    /\ link_up
    /\ n_drops < MaxDrops
    /\ link_up' = FALSE
    /\ n_drops' = n_drops + 1
    /\ ble_is_connected' = FALSE
    /\ UNCHANGED <<ble_lock, conn_pc, retry, radio, scans, established, ble_client,
                   bleFrame>>

\* The steps connect takes once it has been called.
ConnectStep(t) == AcquireLock(t) \/ Scan(t) \/ Link(t) \/ PairAndSubscribe(t)

----------------------------------------------------------------------------
(* HealthCheckMixin of GoProClient: is_healthy and reconnect               *)
(* (health_check.py:43-117) over the two connection managers. One          *)
(* reconnect call runs at a time; the link can drop at any moment.         *)

\* The largest _max_reconnect_attempts tried (TimeoutConfig's default is 3).
MaxReconnect == 2

\* The loop test of reconnect with a budget that never runs out.
BudgetLeft_Always(n, max) == TRUE

\* health_check.py:87: while attempt < self._max_reconnect_attempts.
BudgetLeft(n, max) == n < max

\* health_check.py:112: wait_time = min(2**attempt, 10).
backoff(n) == IF 2^n < 10 THEN 2^n ELSE 10

\* is_healthy, health_check.py:43-75: BLE must be connected; HTTP is probed
\* with GET gopro/version only when it is connected. request_ok says whether
\* that GET returns status 200.
is_healthy(ble, http, request_ok) ==
    IF ~ble THEN FALSE
    ELSE IF http THEN request_ok
    ELSE TRUE

InitHealth(budgets) ==
    /\ reconnect_pc = "idle"
    /\ reconnect_attempt = 0
    /\ max_reconnect_attempts \in budgets
    /\ reconnect_result = "none"
    /\ reconnect_calls = <<>>
    /\ reconnect_slept = 0

\* The client variables reconnect never touches.
healthFrame == <<client_pc, client_op, client_result, client_log, offline_mode, store,
                 the_credentials, loaded, status, ip_attempt, ready_elapsed,
                 http_credentials>>

\* health_check.py:87-88 and 116-117: the loop test; another attempt begins
\* or reconnect returns False.
NextAttempt ==
    IF BudgetLeft(reconnect_attempt, max_reconnect_attempts)
    THEN /\ reconnect_attempt' = reconnect_attempt + 1
         /\ reconnect_pc' = "ble"
         /\ reconnect_result' = "none"
    ELSE /\ reconnect_pc' = "idle"
         /\ reconnect_result' = "false"
         /\ UNCHANGED reconnect_attempt

\* health_check.py:109-114: an exception of the attempt is logged; a backoff
\* sleep follows unless the budget is used up.
AttemptRaised ==
    /\ reconnect_slept' =
         IF reconnect_attempt < max_reconnect_attempts THEN backoff(reconnect_attempt) ELSE 0
    /\ NextAttempt

\* health_check.py:77-88: reconnect is called.
reconnect ==
    /\ reconnect_pc = "idle"
    /\ reconnect_calls' = <<>>
    /\ reconnect_slept' = 0
    /\ IF BudgetLeft(0, max_reconnect_attempts)
       THEN /\ reconnect_attempt' = 1
            /\ reconnect_pc' = "ble"
            /\ reconnect_result' = "none"
       ELSE /\ reconnect_attempt' = 0
            /\ reconnect_pc' = "idle"
            /\ reconnect_result' = "false"
    /\ UNCHANGED <<max_reconnect_attempts, connVars, healthFrame>>

\* health_check.py:92-96: BLE is connected again if it is down.
ReconnectBle ==
    /\ reconnect_pc = "ble"
    /\ IF ble_is_connected
       THEN /\ reconnect_calls' = <<>>
            /\ reconnect_pc' = "http"
            /\ UNCHANGED <<reconnect_attempt, reconnect_result, reconnect_slept,
                           ble_is_connected, ble_client>>
       ELSE /\ reconnect_calls' = <<"ble.connect">>
            /\ \/ /\ ble_is_connected' = TRUE
                  /\ ble_client' = TRUE
                  /\ reconnect_pc' = "http"
                  /\ UNCHANGED <<reconnect_attempt, reconnect_result, reconnect_slept>>
               \/ /\ ble_client' = FALSE
                  /\ UNCHANGED ble_is_connected
                  /\ AttemptRaised
    /\ UNCHANGED <<max_reconnect_attempts, http_is_connected, http_session, healthFrame>>

\* health_check.py:98-102: HTTP is connected again if it is down.
ReconnectHttp ==
    /\ reconnect_pc = "http"
    /\ IF http_is_connected
       THEN /\ reconnect_pc' = "health"
            /\ UNCHANGED <<reconnect_attempt, reconnect_result, reconnect_slept,
                           reconnect_calls, http_is_connected, http_session>>
       ELSE \E probe \in BOOLEAN :
            LET r == connect(HttpState, [probe |-> probe, request |-> TRUE]) IN
            /\ reconnect_calls' = reconnect_calls \o <<"http.connect">>
            /\ http_is_connected' = r.connected
            /\ http_session' = r.session
            /\ IF r.result = "ok"
               THEN /\ reconnect_pc' = "health"
                    /\ UNCHANGED <<reconnect_attempt, reconnect_result, reconnect_slept>>
               ELSE AttemptRaised
    /\ UNCHANGED <<max_reconnect_attempts, ble_is_connected, ble_client, healthFrame>>

\* health_check.py:104-107: the health check decides the attempt. An
\* unhealthy result goes round the loop without a sleep.
ReconnectHealthy ==
    /\ reconnect_pc = "health"
    /\ \E request_ok \in BOOLEAN :
        IF is_healthy(ble_is_connected, http_is_connected, request_ok)
        THEN /\ reconnect_calls' = reconnect_calls \o <<"healthy">>
             /\ reconnect_pc' = "idle"
             /\ reconnect_result' = "true"
             /\ UNCHANGED <<reconnect_attempt, reconnect_slept>>
        ELSE /\ reconnect_calls' = reconnect_calls \o <<"unhealthy">>
             /\ reconnect_slept' = 0
             /\ NextAttempt
    /\ UNCHANGED <<max_reconnect_attempts, connVars, healthFrame>>

\* The states the two managers can be in when reconnect is called: BLE
\* connected, never connected or dropped; HTTP without credentials, with
\* credentials and never connected, with a session whose probe failed, or
\* connected.
ManagerStates ==
    {m \in [ble : BOOLEAN, client : BOOLEAN, http : BOOLEAN, session : BOOLEAN,
            credentials : {{}, {ProvisionedCamera}}] :
        /\ m.ble => m.client
        /\ m.http => m.session
        /\ m.session => m.credentials # {}}

----------------------------------------------------------------------------
(* _fragment called on its own (ble_manager.py:436-493), as write calls it *)
(* at line 510, with payloads up to and past the limit of the length       *)
(* field.                                                                  *)

\* Payloads of every length 0..MaxFragLen are fragmented.
MaxFragLen == 40

\* Lengths around the limits of the Extended-13 and Extended-16 headers.
BoundaryLens == {8191, 8192, 8193, 65534, 65535, 65536, 65537}

\* The payloads handed to _fragment: short ones in three patterns, long ones
\* in one.
FragmentInputs ==
    {[len |-> len, seed |-> seed] : len \in 0..MaxFragLen, seed \in 0..2}
    \cup {[len |-> len, seed |-> 0] : len \in BoundaryLens}

InitFragment(inputs) ==
    /\ fragment_data \in inputs
    /\ fragment_pc = "call"
    /\ fragment_packets = <<>>

\* One call of _fragment: it returns the list of packets or raises ValueError.
fragment ==
    /\ fragment_pc = "call"
    /\ LET r == Fragment(Payload(fragment_data.len, fragment_data.seed)) IN
        /\ fragment_pc' = IF r.ok THEN "returned" ELSE "ValueError"
        /\ fragment_packets' = r.packets
    /\ UNCHANGED fragment_data

----------------------------------------------------------------------------
(* BleConnectionManager.write (ble_manager.py:495-515) and disconnect      *)
(* (270-286) on a manager that tasks connect and whose link can drop.      *)
(* _send_protobuf_command passes on whatever write raises                  *)
(* (ble_commands.py:104).                                                  *)

\* Lengths of the data written: one, two and three packets.
WriteLens == {3, 19, 38}

InitWrite ==
    /\ write_pc = "idle"
    /\ write_packets = <<>>
    /\ write_sent = 0
    /\ write_log = <<>>
    /\ write_result = "none"

\* ble_manager.py:505-511: write is called; without a client it raises
\* BleConnectionError, with one it fragments the data.
write ==
    /\ write_pc = "idle"
    /\ write_sent' = 0
    /\ write_log' = <<>>
    /\ IF ~ble_client
       THEN /\ write_result' = "BleConnectionError"
            /\ UNCHANGED <<write_pc, write_packets>>
       ELSE \E len \in WriteLens :
            /\ write_packets' = Fragment(Payload(len, 0)).packets
            /\ write_pc' = "writing"
            /\ write_result' = "none"
    /\ UNCHANGED <<bleVars, ble_is_connected, ble_client, bleFrame>>

\* A write that goes on with the next packet after a packet failed.
WriteGattChar_GoesOnAfterFailure ==
    /\ write_pc = "writing"
    /\ write_log' = Append(write_log, Head(write_packets))
    /\ write_packets' = Tail(write_packets)
    /\ write_pc' = IF Tail(write_packets) = <<>> THEN "idle" ELSE "writing"
    /\ \E acked \in {link_up, FALSE} :
        /\ write_sent' = write_sent + (IF acked THEN 1 ELSE 0)
        /\ write_result' = IF Tail(write_packets) # <<>> THEN "none"
                           ELSE IF write_sent' = Len(write_log') THEN "returned"
                           ELSE "BleakError"
    /\ UNCHANGED <<bleVars, ble_is_connected, ble_client, bleFrame>>

\* ble_manager.py:512-515: one write_gatt_char(uuid, packet, response=True).
\* On a link that is up it is acknowledged or fails; on a link that is down
\* bleak raises BleakError. Nothing in write catches it.
WriteGattChar ==
    /\ write_pc = "writing"
    /\ write_log' = Append(write_log, Head(write_packets))
    /\ \/ /\ link_up
          /\ write_sent' = write_sent + 1
          /\ write_packets' = Tail(write_packets)
          /\ write_pc' = IF Tail(write_packets) = <<>> THEN "idle" ELSE "writing"
          /\ write_result' = IF Tail(write_packets) = <<>> THEN "returned" ELSE "none"
       \/ /\ write_pc' = "idle"
          /\ write_result' = "BleakError"
          /\ UNCHANGED <<write_sent, write_packets>>
    /\ UNCHANGED <<bleVars, ble_is_connected, ble_client, bleFrame>>

\* BleConnectionManager.disconnect, ble_manager.py:270-286, called while no
\* connect holds the lock.
disconnect ==
    /\ ble_lock = NoTask
    /\ ble_is_connected
    /\ \E raised \in BOOLEAN :
        LET b == ble_disconnect(raised) IN
        /\ ble_is_connected' = b.connected
        /\ ble_client' = b.client
        /\ link_up' = (raised /\ link_up)
    /\ UNCHANGED <<ble_lock, conn_pc, retry, radio, scans, established, n_drops, bleFrame,
                   writeVars>>

----------------------------------------------------------------------------
(* MultiCameraManager.execute_all (multi_camera.py:273-336): one           *)
(* execute_one task per requested camera, run under the semaphore and      *)
(* collected by asyncio.gather.                                            *)

CameraIds == {"9811", "9812", "9813"}

\* execute_all calls per behaviour.
MaxCalls == 2

\* A CameraStatus as __init__ and add_camera create it (lines 24-35).
NewStatus == [command_count |-> 0, error_count |-> 0, last_error |-> "None"]

\* No task has returned anything.
NoResults == [id \in {} |-> [success |-> FALSE, value |-> "None"]]

\* The manager between two calls: managed is the set of cameras given to
\* __init__ or added since (the keys of _statuses, lines 106 and 528), and
\* the cameras with a client are among them (lines 172, 543 and 596-597).
InitMulti(managed_sets) ==
    /\ max_concurrent \in {1, 2}
    /\ \E managed \in managed_sets :
        /\ statuses = [id \in managed |-> NewStatus]
        /\ clients \in SUBSET managed
    /\ target_ids = {}
    /\ execute_pc = [id \in CameraIds |-> "none"]
    /\ execute_results = NoResults
    /\ execute_all_pc = "idle"
    /\ execute_all_outcome = "none"
    /\ result_dict = NoResults
    /\ n_calls = 0

\* The tasks of an earlier call that are still under way.
TasksUnderWay == {id \in CameraIds : execute_pc[id] \in {"waiting", "running"}}

\* Lines 297-328: execute_all is called with camera_ids or, when none are
\* given, for every camera with a client; without targets it returns {} at
\* once.
execute_all ==
    /\ execute_all_pc = "idle"
    /\ TasksUnderWay = {}
    /\ n_calls < MaxCalls
    /\ n_calls' = n_calls + 1
    /\ \E given \in BOOLEAN, camera_ids \in SUBSET CameraIds :
        LET targets == IF given THEN camera_ids ELSE clients IN
        /\ target_ids' = targets
        /\ execute_results' = NoResults
        /\ IF targets = {}
           THEN /\ execute_all_outcome' = "returned"
                /\ result_dict' = NoResults
                /\ execute_pc' = [id \in CameraIds |-> "none"]
                /\ UNCHANGED execute_all_pc
           ELSE /\ execute_all_outcome' = "none"
                /\ execute_all_pc' = "gather"
                /\ execute_pc' = [id \in CameraIds |->
                                    IF id \in targets THEN "waiting" ELSE "none"]
                /\ UNCHANGED result_dict
    /\ UNCHANGED <<max_concurrent, clients, statuses>>

\* Line 308: the task enters the semaphore.
EnterSemaphore(id) ==
    /\ execute_pc[id] = "waiting"
    /\ Cardinality({i \in CameraIds : execute_pc[i] = "running"}) < max_concurrent
    /\ execute_pc' = [execute_pc EXCEPT ![id] = "running"]
    /\ UNCHANGED <<max_concurrent, clients, statuses, target_ids, execute_results,
                   execute_all_pc, execute_all_outcome, result_dict, n_calls>>

\* The task returns (camera_id, (success, value)).
TaskReturns(id, success, value) ==
    /\ execute_results' =
         [i \in DOMAIN execute_results \cup {id} |->
            IF i = id THEN [success |-> success, value |-> value] ELSE execute_results[i]]
    /\ execute_pc' = [execute_pc EXCEPT ![id] = "done"]

\* Lines 322-326: the handler of execute_one. It counts the error in
\* _statuses[camera_id]; for a camera without a status the subscript raises
\* KeyError inside the handler and the task ends with it.
ExceptHandler(id, e) ==
    IF id \in DOMAIN statuses
    THEN /\ statuses' = [statuses EXCEPT ![id].error_count = @ + 1, ![id].last_error = e]
         /\ TaskReturns(id, FALSE, e)
    ELSE /\ execute_pc' = [execute_pc EXCEPT ![id] = "raised"]
         /\ UNCHANGED <<statuses, execute_results>>

\* Lines 309-320: the command of one camera, which returns or raises.
RunCommand(id) ==
    /\ execute_pc[id] = "running"
    /\ IF id \notin clients
       THEN ExceptHandler(id, "ValueError")
       ELSE \E ok \in BOOLEAN :
            IF ~ok THEN ExceptHandler(id, "CommandError")
            ELSE IF id \notin DOMAIN statuses THEN ExceptHandler(id, "KeyError")
            ELSE /\ statuses' = [statuses EXCEPT ![id].command_count = @ + 1]
                 /\ TaskReturns(id, TRUE, "result")
    /\ UNCHANGED <<max_concurrent, clients, target_ids, execute_all_pc, execute_all_outcome,
                   result_dict, n_calls>>

\* Lines 330-336: gather returns when every task has returned, and
\* execute_all returns the results as a dict.
GatherReturns ==
    /\ execute_all_pc = "gather"
    /\ \A id \in target_ids : execute_pc[id] = "done"
    /\ execute_all_pc' = "idle"
    /\ execute_all_outcome' = "returned"
    /\ result_dict' = execute_results
    /\ UNCHANGED <<max_concurrent, clients, statuses, target_ids, execute_pc,
                   execute_results, n_calls>>

\* Line 330: gather is called without return_exceptions, so the exception of
\* a task is raised to execute_all as soon as the task ends; the other tasks
\* keep running.
GatherRaises ==
    /\ execute_all_pc = "gather"
    /\ \E id \in target_ids : execute_pc[id] = "raised"
    /\ execute_all_pc' = "idle"
    /\ execute_all_outcome' = "KeyError"
    /\ UNCHANGED <<max_concurrent, clients, statuses, target_ids, execute_pc,
                   execute_results, result_dict, n_calls>>

----------------------------------------------------------------------------
(* The specifications.                                                     *)

Init ==
    /\ InitMgr
    /\ loop_closed \in BOOLEAN
    /\ InitCodec
    /\ InitLink
    /\ InitCohn
    /\ InitWifi
    /\ InitClient({{}}, {TRUE}, {ProvisionedCamera})
    /\ InitProbe
    /\ InitBle({"advertising"})
    /\ InitHealth({3})
    /\ InitFragment({[len |-> 0, seed |-> 0]})
    /\ InitWrite
    /\ InitConfig({5})
    /\ InitMulti({{}})

Next ==
    \/ (SendMessage /\ UNCHANGED <<linkVars, cohnVars, wifiVars, sessionVars>>)
    \/ (SendSplit /\ UNCHANGED <<linkVars, cohnVars, wifiVars, sessionVars>>)
    \/ (SendStray /\ UNCHANGED <<linkVars, cohnVars, wifiVars, sessionVars>>)
    \/ (CodecNotification /\ UNCHANGED <<linkVars, cohnVars, wifiVars, sessionVars>>)
    \/ (put_response_safe /\ UNCHANGED <<codecVars, linkVars, cohnVars, wifiVars, sessionVars>>)
    \/ (Consume /\ UNCHANGED <<linkVars, cohnVars, wifiVars, sessionVars>>)

NextMalformed ==
    \/ (SendMalformed /\ UNCHANGED <<linkVars, cohnVars, wifiVars, sessionVars>>)
    \/ (SendStray /\ UNCHANGED <<linkVars, cohnVars, wifiVars, sessionVars>>)
    \/ (CodecNotification /\ UNCHANGED <<linkVars, cohnVars, wifiVars, sessionVars>>)
    \/ (put_response_safe /\ UNCHANGED <<codecVars, linkVars, cohnVars, wifiVars, sessionVars>>)
    \/ (Consume /\ UNCHANGED <<linkVars, cohnVars, wifiVars, sessionVars>>)

\* The specification of malformed traffic: a peer sending packets that start
\* no message into _on_notification, and a consumer draining the queue.
SpecMalformed == Init /\ [][NextMalformed]_vars

\* The codec specification: a peer sending messages, split packets and stray
\* packets into _on_notification, and a consumer draining the queue.
Spec == Init /\ [][Next]_vars

InitLinkSpec ==
    /\ InitMgr
    /\ loop_closed = FALSE
    /\ InitCodec
    /\ InitLink
    /\ InitCohn
    /\ InitWifi
    /\ InitClient({{}}, {TRUE}, {ProvisionedCamera})
    /\ InitProbe
    /\ InitBle({"advertising"})
    /\ InitHealth({3})
    /\ InitFragment({[len |-> 0, seed |-> 0]})
    /\ InitWrite
    /\ InitConfig({5})
    /\ InitMulti({{}})

NextLink ==
    \/ \E t \in Tasks : Begin(t) /\ UNCHANGED <<codecVars, cohnVars, wifiVars, sessionVars>>
    \/ \E t \in Tasks : WriteFragment(t) /\ UNCHANGED <<codecVars, cohnVars, wifiVars, sessionVars>>
    \/ \E t \in Tasks : WaitReturn(t) /\ UNCHANGED <<codecVars, cohnVars, wifiVars, sessionVars>>
    \/ \E t \in Tasks : WaitTimeout(t) /\ UNCHANGED <<codecVars, cohnVars, wifiVars, sessionVars>>
    \/ \E t \in Tasks : Return(t) /\ UNCHANGED <<codecVars, cohnVars, wifiVars, sessionVars>>
    \/ (CameraReply /\ UNCHANGED <<codecVars, cohnVars, wifiVars, sessionVars>>)
    \/ (CameraPush /\ UNCHANGED <<codecVars, cohnVars, wifiVars, sessionVars>>)
    \/ (on_notification /\ UNCHANGED <<codecVars, linkVars, cohnVars, wifiVars, sessionVars>>)
    \/ (put_response_safe /\ UNCHANGED <<codecVars, linkVars, cohnVars, wifiVars, sessionVars>>)

\* The link specification: tasks issuing commands on one link, the camera
\* answering and pushing, notifications reassembled into the queue.
SpecLink == InitLinkSpec /\ [][NextLink]_vars

NextCohn ==
    \/ (configure_cohn /\ UNCHANGED <<mgrVars, codecVars, linkVars, wifiVars, sessionVars>>)
    \/ (ClearCert /\ UNCHANGED <<mgrVars, codecVars, linkVars, wifiVars, sessionVars>>)
    \/ (CreateCert /\ UNCHANGED <<mgrVars, codecVars, linkVars, wifiVars, sessionVars>>)
    \/ (PollTimeout /\ UNCHANGED <<mgrVars, codecVars, linkVars, wifiVars, sessionVars>>)
    \/ (PollStatus /\ UNCHANGED <<mgrVars, codecVars, linkVars, wifiVars, sessionVars>>)
    \/ (PollSleep /\ UNCHANGED <<mgrVars, codecVars, linkVars, wifiVars, sessionVars>>)
    \/ (GetCert /\ UNCHANGED <<mgrVars, codecVars, linkVars, wifiVars, sessionVars>>)
    \/ (GetStatus /\ UNCHANGED <<mgrVars, codecVars, linkVars, wifiVars, sessionVars>>)

\* The COHN specification: one call of configure_cohn against a camera whose
\* replies are arbitrary.
SpecCohn == InitLinkSpec /\ [][NextCohn]_vars

NextWifi ==
    \/ (connect_to_wifi /\ UNCHANGED <<mgrVars, codecVars, linkVars, cohnVars, sessionVars>>)
    \/ (ConnectInitial /\ UNCHANGED <<mgrVars, codecVars, linkVars, cohnVars, sessionVars>>)
    \/ (ProvisioningExpired /\ UNCHANGED <<mgrVars, codecVars, linkVars, cohnVars, sessionVars>>)
    \/ (ProvisioningQuiet /\ UNCHANGED <<mgrVars, codecVars, linkVars, cohnVars, sessionVars>>)
    \/ (ProvisioningNotified /\ UNCHANGED <<mgrVars, codecVars, linkVars, cohnVars, sessionVars>>)
    \/ (ScanInitial /\ UNCHANGED <<mgrVars, codecVars, linkVars, cohnVars, sessionVars>>)
    \/ (ScanExpired /\ UNCHANGED <<mgrVars, codecVars, linkVars, cohnVars, sessionVars>>)
    \/ (ScanQuiet /\ UNCHANGED <<mgrVars, codecVars, linkVars, cohnVars, sessionVars>>)
    \/ (ScanNotified /\ UNCHANGED <<mgrVars, codecVars, linkVars, cohnVars, sessionVars>>)
    \/ (ScanEntries /\ UNCHANGED <<mgrVars, codecVars, linkVars, cohnVars, sessionVars>>)

\* The WiFi specification: one call of connect_to_wifi against a camera whose
\* responses and notifications are arbitrary.
SpecWifi == InitLinkSpec /\ [][NextWifi]_vars

InitClientSpec ==
    /\ InitMgr
    /\ loop_closed = FALSE
    /\ InitCodec
    /\ InitLink
    /\ InitCohn
    /\ InitWifi
    /\ InitClient(Stores, BOOLEAN, Cameras)
    /\ InitProbe
    /\ InitBle({"advertising"})
    /\ InitHealth({3})
    /\ InitFragment({[len |-> 0, seed |-> 0]})
    /\ InitWrite
    /\ InitConfig({2, 5})
    /\ InitMulti({{}})

NextClient ==
    \/ (open /\ UNCHANGED <<protocolVars, probeVars, camera, bleVars, restVars>>)
    \/ (switch_to_online_mode /\ UNCHANGED <<protocolVars, probeVars, camera, bleVars, restVars>>)
    \/ (FetchStatus /\ UNCHANGED <<protocolVars, probeVars, camera, bleVars, restVars>>)
    \/ (FetchCreate /\ UNCHANGED <<protocolVars, probeVars, camera, bleVars, restVars>>)
    \/ (FetchWait /\ UNCHANGED <<protocolVars, probeVars, camera, bleVars, restVars>>)
    \/ (FetchCert /\ UNCHANGED <<protocolVars, probeVars, camera, bleVars, restVars>>)
    \/ (FetchFinal /\ UNCHANGED <<protocolVars, probeVars, camera, bleVars, restVars>>)
    \/ (Refresh /\ UNCHANGED <<protocolVars, probeVars, camera, bleVars, restVars>>)
    \/ (IpWait /\ UNCHANGED <<protocolVars, probeVars, camera, bleVars, restVars>>)

\* The client specification: open and switch_to_online_mode of one
\* GoProClient, with any record in the store, against any camera.
SpecClient == InitClientSpec /\ [][NextClient]_vars

InitSessionSpec ==
    /\ InitMgr
    /\ loop_closed = FALSE
    /\ InitCodec
    /\ InitLink
    /\ InitCohn
    /\ InitWifi
    /\ InitClient({{}}, BOOLEAN, {ProvisionedCamera})
    /\ InitProbe
    /\ InitBle({"advertising"})
    /\ InitHealth({3})
    /\ InitFragment({[len |-> 0, seed |-> 0]})
    /\ InitWrite
    /\ InitConfig({5})
    /\ InitMulti({{}})

NextSession ==
    \/ NextClient
    \/ (operation /\ UNCHANGED <<protocolVars, probeVars, camera, bleVars, restVars>>)
    \/ (start_preview /\ UNCHANGED <<protocolVars, probeVars, camera, bleVars, restVars>>)
    \/ (WaitReady /\ UNCHANGED <<protocolVars, probeVars, camera, bleVars, restVars>>)
    \/ (StartStream /\ UNCHANGED <<protocolVars, probeVars, camera, bleVars, restVars>>)
    \/ (close /\ UNCHANGED <<protocolVars, probeVars, camera, bleVars, restVars>>)
    \/ (on_disconnected /\ UNCHANGED <<protocolVars, probeVars, camera, bleVars, restVars>>)

\* The session specification: every operation of one GoProClient, one at a
\* time, with a store that starts empty, against a provisioned camera whose
\* link can drop at any moment.
SpecSession == InitSessionSpec /\ [][NextSession]_vars

NextProbe ==
    \/ (wait_for_https_ready /\ UNCHANGED <<protocolVars, clientVars, camera, bleVars, restVars>>)
    \/ (ProbeAttempt /\ UNCHANGED <<protocolVars, clientVars, camera, bleVars, restVars>>)

\* The probe specification: calls of _wait_for_https_ready against a camera
\* whose answers are arbitrary.
SpecProbe == InitLinkSpec /\ [][NextProbe]_vars

InitBleSpec ==
    /\ InitMgr
    /\ loop_closed = FALSE
    /\ InitCodec
    /\ InitLink
    /\ InitCohn
    /\ InitWifi
    /\ InitClient({{}}, {TRUE}, {ProvisionedCamera})
    /\ InitProbe
    /\ InitBle(Radios)
    /\ InitHealth({3})
    /\ InitFragment({[len |-> 0, seed |-> 0]})
    /\ InitWrite
    /\ InitConfig({5})
    /\ InitMulti({{}})

NextBle ==
    \/ \E t \in Tasks : CallConnect(t) /\ UNCHANGED <<protocolVars, camera, probeVars, restVars>>
    \/ \E t \in Tasks : AcquireLock(t) /\ UNCHANGED <<protocolVars, camera, probeVars, restVars>>
    \/ \E t \in Tasks : Scan(t) /\ UNCHANGED <<protocolVars, camera, probeVars, restVars>>
    \/ \E t \in Tasks : Link(t) /\ UNCHANGED <<protocolVars, camera, probeVars, restVars>>
    \/ \E t \in Tasks : PairAndSubscribe(t) /\ UNCHANGED <<protocolVars, camera, probeVars, restVars>>
    \/ (LinkDrops /\ UNCHANGED <<protocolVars, camera, probeVars, restVars>>)

\* The BLE specification: tasks calling connect on one manager. The event
\* loop keeps running every call that can take a step (weak fairness per
\* task); the radio and the link are free.
SpecBle ==
    /\ InitBleSpec
    /\ [][NextBle]_vars
    /\ \A t \in Tasks : WF_vars(ConnectStep(t) /\ UNCHANGED <<protocolVars, camera, probeVars, restVars>>)

InitReconnectSpec ==
    /\ InitMgr
    /\ loop_closed = FALSE
    /\ InitCodec
    /\ InitLink
    /\ InitCohn
    /\ InitWifi
    /\ InitClientWith({{}}, BOOLEAN, {ProvisionedCamera}, ManagerStates)
    /\ InitProbe
    /\ InitBle({"advertising"})
    /\ InitHealth(0..MaxReconnect)
    /\ InitFragment({[len |-> 0, seed |-> 0]})
    /\ InitWrite
    /\ InitConfig({5})
    /\ InitMulti({{}})

NextReconnect ==
    \/ (reconnect /\ UNCHANGED <<protocolVars, probeVars, camera, bleVars, fragVars, writeVars, moreVars>>)
    \/ (ReconnectBle /\ UNCHANGED <<protocolVars, probeVars, camera, bleVars, fragVars, writeVars, moreVars>>)
    \/ (ReconnectHttp /\ UNCHANGED <<protocolVars, probeVars, camera, bleVars, fragVars, writeVars, moreVars>>)
    \/ (ReconnectHealthy /\ UNCHANGED <<protocolVars, probeVars, camera, bleVars, fragVars, writeVars, moreVars>>)
    \/ (on_disconnected /\ UNCHANGED <<protocolVars, probeVars, camera, bleVars, restVars>>)

\* The reconnect specification: calls of reconnect on a client whose
\* managers are in any state a session can leave them in, with any budget,
\* while the BLE link can drop.
SpecReconnect == InitReconnectSpec /\ [][NextReconnect]_vars

InitFragmentSpec ==
    /\ InitMgr
    /\ loop_closed = FALSE
    /\ InitCodec
    /\ InitLink
    /\ InitCohn
    /\ InitWifi
    /\ InitClient({{}}, {TRUE}, {ProvisionedCamera})
    /\ InitProbe
    /\ InitBle({"advertising"})
    /\ InitHealth({3})
    /\ InitFragment(FragmentInputs)
    /\ InitWrite
    /\ InitConfig({5})
    /\ InitMulti({{}})

NextFragment ==
    fragment /\ UNCHANGED <<protocolVars, clientVars, camera, probeVars, bleVars, healthVars,
                             writeVars, moreVars>>

\* The fragmentation specification: _fragment applied to one payload.
SpecFragment == InitFragmentSpec /\ [][NextFragment]_vars

NextWrite ==
    \/ \E t \in Tasks : CallConnect(t) /\ UNCHANGED <<protocolVars, camera, probeVars, restVars>>
    \/ \E t \in Tasks : ConnectStep(t) /\ UNCHANGED <<protocolVars, camera, probeVars, restVars>>
    \/ (LinkDrops /\ UNCHANGED <<protocolVars, camera, probeVars, restVars>>)
    \/ (disconnect /\ UNCHANGED <<protocolVars, camera, probeVars, healthVars, fragVars, moreVars>>)
    \/ (write /\ UNCHANGED <<protocolVars, camera, probeVars, healthVars, fragVars, moreVars>>)
    \/ (WriteGattChar /\ UNCHANGED <<protocolVars, camera, probeVars, healthVars, fragVars, moreVars>>)

\* What a drop of the link or a disconnect leaves of the reassembly
\* (ble_manager.py:270-298): _accumulating_response, _bytes_remaining,
\* _header_buffer and the queue are not touched; the notifications still
\* under way are lost with the link.
TrafficLost ==
    /\ wire' = <<>>
    /\ tx' = NoTx
    /\ UNCHANGED <<accumulating_response, bytes_remaining, header_buffer, response_queue,
                   loop_ready, loop_closed, outs, last_event, tx_starts, tx_desyncs,
                   strays>>

\* The camera notifies over a link that is up and subscribed (lines 216-233).
Subscribed == link_up /\ ble_is_connected

\* The link was lost or closed at least once and connect has succeeded since.
Relinked ==
    /\ Subscribed
    /\ (n_drops > 0 \/ \E t, u \in Tasks : t # u /\ established[t] /\ established[u])

\* A message of one or two packets.
SendShortMessage ==
    /\ Quiet
    /\ \E p \in ShortPayloads :
        /\ wire' = Fragment(Payload(p.len, p.seed)).packets
        /\ StartTx("msg", p)

NextRelink ==
    \/ \E t \in Tasks : CallConnect(t) /\ UNCHANGED <<protocolVars, camera, probeVars, restVars>>
    \/ \E t \in Tasks : ConnectStep(t) /\ UNCHANGED <<protocolVars, camera, probeVars, restVars>>
    \/ (LinkDrops /\ TrafficLost
          /\ UNCHANGED <<linkVars, cohnVars, wifiVars, camera, probeVars, restVars>>)
    \/ (disconnect /\ TrafficLost
          /\ UNCHANGED <<linkVars, cohnVars, wifiVars, camera, probeVars, healthVars, fragVars,
                         moreVars>>)
    \/ (Subscribed /\ ~Relinked /\ SendStray
          /\ UNCHANGED <<linkVars, cohnVars, wifiVars, sessionVars>>)
    \/ (Subscribed /\ SendShortMessage /\ UNCHANGED <<linkVars, cohnVars, wifiVars, sessionVars>>)
    \/ (Subscribed /\ CodecNotification /\ UNCHANGED <<linkVars, cohnVars, wifiVars, sessionVars>>)
    \/ (put_response_safe /\ UNCHANGED <<codecVars, linkVars, cohnVars, wifiVars, sessionVars>>)
    \/ (Consume /\ UNCHANGED <<linkVars, cohnVars, wifiVars, sessionVars>>)

\* The relink specification: notifications over a link that drops or is
\* disconnected and is connected again by the next connect call.  Truncated
\* traffic is on the first link only: what the new link carries is well formed.
SpecRelink == InitLinkSpec /\ [][NextRelink]_vars

multiFrame == <<protocolVars, clientVars, camera, probeVars, bleVars, healthVars, fragVars,
                writeVars, configVars>>

InitMultiSpec ==
    /\ InitMgr
    /\ loop_closed = FALSE
    /\ InitCodec
    /\ InitLink
    /\ InitCohn
    /\ InitWifi
    /\ InitClient({{}}, {TRUE}, {ProvisionedCamera})
    /\ InitProbe
    /\ InitBle({"advertising"})
    /\ InitHealth({3})
    /\ InitFragment({[len |-> 0, seed |-> 0]})
    /\ InitWrite
    /\ InitConfig({5})
    /\ InitMulti(SUBSET CameraIds)

NextMulti ==
    \/ (execute_all /\ UNCHANGED multiFrame)
    \/ \E id \in CameraIds : EnterSemaphore(id) /\ UNCHANGED multiFrame
    \/ \E id \in CameraIds : RunCommand(id) /\ UNCHANGED multiFrame
    \/ (GatherReturns /\ UNCHANGED multiFrame)
    \/ (GatherRaises /\ UNCHANGED multiFrame)

\* The multi-camera specification: execute_all calls of one manager, for any
\* set of managed cameras, any of them with a client, and any requested ids.
SpecMulti == InitMultiSpec /\ [][NextMulti]_vars

\* The write specification: writes on a manager that is being connected and
\* disconnected, over a link that can drop, towards a camera that is
\* advertising.
SpecWrite == InitLinkSpec /\ [][NextWrite]_vars

NextTimeout ==
    \/ NextLink
    \/ (CameraReplyLong /\ UNCHANGED <<codecVars, cohnVars, wifiVars, sessionVars>>)

\* The timeout specification: the link specification with a camera whose
\* responses can span two packets, so that a wait can time out between the
\* packets of a response.
SpecTimeout == InitLinkSpec /\ [][NextTimeout]_vars

----------------------------------------------------------------------------
(* Claims about the frame codec, checked under Spec.                       *)

\* C1 (round trip): a message fragmented by _fragment and fed packet by
\* packet to _on_notification, starting from a clean reassembly state,
\* completes no message before its last packet and completes exactly one
\* message, equal to the original bytes, at the last packet.
RoundTrip ==
    (tx.kind = "msg" /\ tx.clean) =>
        /\ wire # <<>> => outs = <<>>
        /\ wire = <<>> => outs = <<TxPayload>>

\* A message of two packets has been fed whole.
RoundTripWitness ==
    /\ tx.kind = "msg" /\ tx.clean /\ tx.len = MaxLen /\ ~tx.after_desync
    /\ wire = <<>>
    /\ outs = <<TxPayload>>

\* C2 as stated (partial-header tolerance, every byte of the new-message
\* packet in its own notification): once all bytes have arrived the message
\* is complete and equal to the original, and no call saw a desync or
\* started the message again.
PartialPacketBytewise ==
    (tx.kind = "split_bytes" /\ tx.clean /\ wire = <<>>) =>
        /\ outs = <<TxPayload>>
        /\ tx_desyncs = 0
        /\ tx_starts = 1

\* C2 as amended: when the header bytes of a new-message packet arrive one
\* per notification and the notification with the last header byte carries
\* the packet's payload, the message completes exactly as when the packet is
\* fed whole; no call sees a desync, and the header is parsed once.
PartialHeaderTolerance ==
    (tx.kind = "split_header" /\ tx.clean) =>
        /\ wire # <<>> => outs = <<>>
        /\ wire = <<>> => (outs = <<TxPayload>> /\ tx_starts = 1)
        /\ tx_desyncs = 0
        /\ tx_starts <= 1
        /\ last_event.branch \in {"none", "buffered", "new", "cont"}

\* The header of a two-packet message arrived in two notifications, the
\* first of them buffered, and the message completed.
PartialHeaderWitness ==
    /\ tx.kind = "split_header" /\ tx.clean /\ tx.len = MaxLen
    /\ wire = <<>>
    /\ outs = <<TxPayload>>

\* C3 (desync self-heal): a packet that drives the remaining length below
\* zero completes no message and leaves accumulator and counter reset; the
\* message sent next is reassembled into exactly its own payload.
DesyncSelfHeal ==
    /\ last_event.end = "desync" =>
            /\ last_event.delivered = 0
            /\ accumulating_response = <<>>
            /\ bytes_remaining = 0
    /\ (tx.kind = "msg" /\ tx.after_desync) =>
            /\ wire # <<>> => outs = <<>>
            /\ wire = <<>> => outs = <<TxPayload>>

\* After a desync a two-packet message has been reassembled.
DesyncSelfHealWitness ==
    /\ tx.kind = "msg" /\ tx.after_desync /\ tx.len = MaxLen
    /\ wire = <<>>
    /\ outs = <<TxPayload>>

----------------------------------------------------------------------------
(* Claims about commands on one link.                                      *)

\* C4 -- Queue discipline: clear_response_queue followed by write followed by
\* wait_for_response never returns a message that was in the inbound queue
\* before clear_response_queue was called.
QueueDiscipline ==
    \A t \in Tasks :
        (pc[t] = "done" /\ got[t].kind = "msg") => got[t].data \notin stale[t]

\* A command cleared a non-empty queue and then received a message.
QueueDisciplineWitness ==
    \E t \in Tasks :
        /\ pc[t] = "done"
        /\ got[t].kind = "msg"
        /\ stale[t] # {}

\* A command is in flight from its queue-clear until wait_for_response has
\* returned or raised.
InFlight(t) == pc[t] \in {"writing", "waiting"}

\* C5 -- At most one logical BLE request is in flight per link at any time,
\* also when two commands are started concurrently on the same client: while
\* one command is between its queue-clear and its response, no other command
\* has cleared the queue, is writing or is waiting for a message.
OneRequestInFlight ==
    \A t, u \in Tasks : (t # u /\ InFlight(t)) => ~InFlight(u)

----------------------------------------------------------------------------
(* Claims about COHN provisioning, checked under SpecCohn.                 *)

\* The success condition with "a non-empty IP" read literally.
NonEmptyIpSuccess(r) ==
    /\ r.status = "COHN_PROVISIONED"
    /\ \/ r.state = "COHN_STATE_NetworkConnected"
       \/ r.state = "COHN_STATE_ConnectingToNetwork" /\ Len(r.ipaddress) > 0

\* The success condition with an IP that has a character other than whitespace.
NonBlankIpSuccess(r) ==
    /\ r.status = "COHN_PROVISIONED"
    /\ \/ r.state = "COHN_STATE_NetworkConnected"
       \/ /\ r.state = "COHN_STATE_ConnectingToNetwork"
          /\ \E i \in 1..Len(r.ipaddress) : r.ipaddress[i] \notin Whitespace

StepRank(step) ==
    CASE step = "clear" -> 1
      [] step = "create" -> 2
      [] step = "poll" -> 3
      [] step = "cert" -> 4
      [] step = "status" -> 5

----------------------------------------------------------------------------
(* Claims about WiFi association, checked under SpecWifi.                  *)

\* How many times a request is in the log of requests sent.
SentCount(request) ==
    Cardinality({i \in 1..Len(wifi_sent) : wifi_sent[i] = request})

ScanFailureTolerated ==
    scan_end \in {"TimeoutError", "start_rejected", "ble_error"} =>
        SentCount("RequestConnectNew") = 1

\* C9 -- Password-auth fallback: when RequestConnect fails after the scan
\* flagged the SSID as configured, RequestConnectNew follows if and only if
\* the failure was the PASSWORD_AUTH provisioning state; any other failure is
\* raised and RequestConnectNew is not sent.
PasswordAuthFallback ==
    known2_error.type # "none" =>
        (SentCount("RequestConnectNew") = 1
            <=> known2_error.state = "PROVISIONING_ERROR_PASSWORD_AUTH")

----------------------------------------------------------------------------
(* Claims about open and switch_to_online_mode, checked under SpecClient.  *)

\* What the running operation logged after its last entry mark.
LogSince(log, mark) ==
    LET at == {i \in 1..Len(log) : log[i] = mark} IN
    IF at = {} THEN log
    ELSE SubSeq(log, (CHOOSE i \in at : \A j \in at : j <= i) + 1, Len(log))

Logged(entry) == \E i \in 1..Len(client_log) : client_log[i] = entry

\* open or switch_to_online_mode has just returned after going online.
WentOnline(op) ==
    /\ client_op = op
    /\ client_pc = "idle"
    /\ client_result = "returned"
    /\ Logged("set_credentials")

\* What _get_cohn_credentials_from_camera and its caller log when all goes well.
FetchTrace(created) ==
    <<"get_cohn_status">> \o (IF created THEN <<"create_cert">> ELSE <<>>)
        \o <<"wait_provisioned", "get_cert", "get_status", "save", "set_credentials">>

\* C11 as stated: when open goes online with no record or an incomplete one
\* in the store, it has sent clear certificate, create certificate, waited
\* for provisioning, fetched certificate and status, then saved, then handed
\* the credentials to the HTTP manager.
OpenRunsConfigureCohn ==
    (WentOnline("open") /\ \A r \in loaded : ~CredentialsComplete(r)) =>
        LogSince(client_log, "load") =
            <<"clear_cert", "create_cert", "wait_provisioned", "get_cert", "get_status",
              "save", "set_credentials">>

\* C11 (amended): when open goes online with no record in the store, or one
\* that lacks certificate, username or password, it has queried the status,
\* created a certificate only if the camera was not provisioned, never
\* cleared one, waited for provisioning, fetched certificate and status, saved
\* the complete result and only then handed it to the HTTP manager.
OpenFetchesCredentials ==
    /\ (WentOnline("open") /\ ~has_valid_credentials(loaded)) =>
        /\ LogSince(client_log, "load") \in {FetchTrace(TRUE), FetchTrace(FALSE)}
        /\ store = http_credentials
        /\ \E c \in store : CredentialsComplete(c) /\ c.certificate \in CameraCerts
    /\ client_pc = "fetch_create" => status.status # "COHN_PROVISIONED"
    /\ (client_pc = "fetch_wait" /\ client_log[Len(client_log)] = "get_cohn_status") =>
        status.status = "COHN_PROVISIONED"

\* C11 witness: open went online from an incomplete record and created a certificate.
OpenFetchesCredentialsWitness ==
    /\ WentOnline("open")
    /\ loaded # {}
    /\ ~has_valid_credentials(loaded)
    /\ LogSince(client_log, "load") = FetchTrace(TRUE)

\* open or switch_to_online_mode has just refreshed a stored record with an
\* address the camera reported.
Refreshed(op) ==
    /\ WentOnline(op)
    /\ has_valid_credentials(loaded)
    /\ has_ip(status)

\* C12 (the refresh keeps the certificate): after open or
\* switch_to_online_mode refreshed a stored record with certificate C1 and
\* the camera reported the address ip2, the store holds one record with
\* certificate C1 and ip_address ip2.
RefreshKeepsCertificate ==
    \A op \in {"open", "switch_to_online_mode"} :
        Refreshed(op) =>
            \E old \in loaded :
                store = {[ip_address |-> status.ipaddress,
                          username |-> status.username,
                          password |-> status.password,
                          certificate |-> old.certificate]}

\* C12 witness: open waited for the address, then replaced the stored
\* address and kept certificate C1.
RefreshKeepsCertificateWitness ==
    /\ Refreshed("open")
    /\ ip_attempt > 0
    /\ \E old \in loaded : old.ip_address = <<"9">> /\ old.certificate = <<"C", "1">>
    /\ \E r \in store : r.ip_address = <<"1", "0">> /\ r.certificate = <<"C", "1">>

\* C13 as stated: after open or switch_to_online_mode went online, the
\* credentials of the HTTP manager and every record saved on the way have
\* all four fields non-empty.
HandedCredentialsValid ==
    \A op \in {"open", "switch_to_online_mode"} :
        WentOnline(op) =>
            /\ \A c \in http_credentials : CredentialsComplete(c)
            /\ Logged("save") => \A r \in store : CredentialsComplete(r)

----------------------------------------------------------------------------
(* Claims about the readiness probe, checked under SpecProbe.              *)

\* C14 as stated: once the GETs of a probe have timed out
\* http_keepalive_fatal_threshold times in a row, the probe has raised the
\* unreachable-host error.
ProbeUnreachableAtThreshold ==
    timeouts_in_a_row >= http_keepalive_fatal_threshold => probe_result = "unreachable"

\* C14 (amended): the counter of the probe equals the number of GETs that
\* timed out in a row, so every other outcome resets it; when that number
\* reaches http_keepalive_fatal_threshold on an attempt before the last one the
\* probe raises the unreachable-host error on that attempt, on the last
\* attempt it raises the startup-timeout error instead; either way it issues
\* no further GET.
ProbeFailFast ==
    /\ probe_pc = "probing" =>
        /\ consecutive_timeouts = timeouts_in_a_row
        /\ timeouts_in_a_row < http_keepalive_fatal_threshold
        /\ probe_gets = attempt - 1
    /\ probe_pc = "done" => probe_gets = attempt
    /\ timeouts_in_a_row >= http_keepalive_fatal_threshold =>
        /\ timeouts_in_a_row = http_keepalive_fatal_threshold
        /\ probe_pc = "done"
        /\ probe_result =
             IF attempt < http_keepalive_max_retries THEN "unreachable" ELSE "startup_timeout"
    /\ probe_result = "unreachable" =>
        /\ timeouts_in_a_row = http_keepalive_fatal_threshold
        /\ attempt < http_keepalive_max_retries

\* C14 witness: the probe gave up as unreachable after an outcome that was
\* not a timeout had reset the count.
ProbeFailFastWitness ==
    /\ probe_result = "unreachable"
    /\ attempt > http_keepalive_fatal_threshold
    /\ probe_gets = attempt

----------------------------------------------------------------------------
(* Claims about the session of a client, checked under SpecSession.        *)

OperationKinds == {"online_only", "dual", "http_only"}

\* A step of the action operation: a camera operation is called and ends.
OperationStep ==
    /\ client_pc = "idle"
    /\ client_op' \in OperationKinds
    /\ client_pc' = "idle"
    /\ ble_is_connected' = ble_is_connected

\* C15 (lazy HTTP activation): no step of open or switch_to_online_mode
\* changes the HTTP manager's connection, so http.is_connected is still false
\* when open returns; a request made while the session is not connected runs
\* connect with the readiness probe first; after a request that succeeded
\* http.is_connected is true; a request made while it is true does not run
\* connect again.
LazyHttpActivation ==
    [][/\ client_op' \in {"open", "switch_to_online_mode"} =>
            UNCHANGED <<http_is_connected, http_session>>
       /\ (OperationStep /\ Len(client_log') > 0
              /\ client_log'[Len(client_log')] = "request") =>
            /\ client_result' = "returned" => http_is_connected'
            /\ ~http_is_connected => client_log' = <<"http.connect", "probe", "request">>
            /\ http_is_connected => client_log' = <<"request">> /\ http_is_connected'
      ]_vars

\* C15 witness: open went online without connecting HTTP, a first request
\* connected, and a later request went out on the established session.
LazyHttpActivationWitness ==
    /\ ~offline_mode
    /\ http_credentials # {}
    /\ client_op \in OperationKinds
    /\ client_result = "returned"
    /\ client_log = <<"request">>
    /\ http_is_connected

\* C16 as stated: after close returned, neither manager is connected.
CloseDisconnects ==
    (client_op = "close" /\ client_pc = "idle") =>
        /\ client_result = "returned"
        /\ ~ble_is_connected
        /\ ~http_is_connected

\* The operations C19 lists as online-only.
OnlineOnlyOperations ==
    {"set_preview_stream", "stop_preview", "get_camera_state", "get_status",
     "get_parsed_state", "get_camera_info", "set_keep_alive", "get_date_time",
     "get_setting", "set_setting", "get_preset_status", "load_preset", "load_preset_group",
     "set_digital_zoom", "reboot", "get_media_list", "list_media", "download_file",
     "download_media", "delete_file", "delete_media", "delete_all_media",
     "get_media_metadata", "get_last_captured_media", "set_turbo_mode", "webcam_start",
     "start_webcam", "webcam_stop", "stop_webcam", "webcam_status", "webcam_preview",
     "webcam_exit", "get_webcam_version"}

\* C19 (mode gating): every operation listed as online-only ends up in a
\* method that begins with _require_online_mode, and a call of such an
\* operation while the client is offline raises OfflineModeError without any
\* HTTP connection attempt or request and leaves the mode and both
\* connections as they were.
ModeGating ==
    [][/\ \A name \in OnlineOnlyOperations :
            name \in Operations /\ OperationKind(Delegate(name)) = "online_only"
       /\ (OperationStep /\ client_op' = "online_only" /\ offline_mode) =>
            /\ client_result' = "OfflineModeError"
            /\ client_log' = <<>>
            /\ UNCHANGED <<offline_mode, connVars, http_credentials, store>>
      ]_vars

\* C19 witness: an online-only operation was refused on an offline client
\* whose BLE link is up.
ModeGatingWitness ==
    /\ client_op = "online_only"
    /\ client_pc = "idle"
    /\ client_result = "OfflineModeError"
    /\ offline_mode
    /\ ble_is_connected
    /\ client_log = <<>>

\* C20 as stated: start_preview on an offline client sends nothing and
\* raises OfflineModeError.
StartPreviewOfflineFailsFast ==
    (client_op = "start_preview" /\ offline_mode) =>
        /\ client_log = <<>>
        /\ client_pc = "idle"
        /\ client_result = "OfflineModeError"

----------------------------------------------------------------------------
(* Claims about BleConnectionManager.connect, checked under SpecBle.       *)

\* C17 as stated: every connect call that has begun eventually returns or
\* raises BleConnectionError, whatever the radio environment.
ConnectTerminates ==
    \A t \in Tasks : (conn_pc[t] = "lock") ~> (conn_pc[t] \in {"returned", "raised"})

\* The tasks inside the body of connect, past the early return.
InConnectBody == {t \in Tasks : conn_pc[t] \in {"scan", "link", "pair"}}

Established == {t \in Tasks : established[t]}

\* C18 as stated, second half: of the connect calls made on one manager at
\* most one establishes a link.
AtMostOneEstablishes == Cardinality(Established) <= 1

\* C18 (amended): a connect call that finds the manager connected returns
\* without a scan, a client or a subscription and changes nothing; connect
\* calls are serialized by _ble_lock; and a later call establishes a link of
\* its own only if the link of the earlier one has dropped by then.
ConnectIdempotent ==
    [][/\ \A t \in Tasks :
            (conn_pc[t] = "lock" /\ conn_pc'[t] # "lock" /\ ble_is_connected) =>
                /\ conn_pc'[t] = "returned"
                /\ UNCHANGED <<ble_is_connected, ble_client, link_up, scans, established,
                               ble_lock, retry, n_drops>>
       /\ Cardinality(InConnectBody') <= 1
       /\ \A t \in InConnectBody' : ble_lock' = t
       /\ Cardinality(Established') <= 1 + n_drops'
      ]_vars

\* C18 witness: two calls returned, one established the link and the other
\* found the manager connected.
ConnectIdempotentWitness ==
    /\ \A t \in Tasks : conn_pc[t] = "returned"
    /\ Cardinality(Established) = 1
    /\ n_drops = 0
    /\ ble_is_connected
    /\ ble_lock = NoTask

----------------------------------------------------------------------------
(* Claims about the offline feature set, checked under SpecSession.        *)

\* C21 as stated: the operations of the offline feature set (set_shutter,
\* start_recording, stop_recording, set_date_time, tag_hilight) are carried
\* out by a BLE write and nothing else while the client is offline, and over
\* HTTP while it is online.
OfflineFeaturesOverBle ==
    (client_op \in {"dual", "http_only"} /\ client_pc = "idle") =>
        IF offline_mode
        THEN client_log = <<"ble.write">>
        ELSE client_log # <<>> /\ ~Logged("ble.write")

----------------------------------------------------------------------------
(* Claims about the credential resolution of switch_to_online_mode,        *)
(* checked under SpecClient.                                               *)

\* The steps of the credential resolution of open's online branch.
OpenResolutionStep ==
    \/ FetchStatus \/ FetchCreate \/ FetchWait \/ FetchCert \/ FetchFinal
    \/ RefreshAs("open") \/ IpWait

\* C22 as stated: switch_to_online_mode resolves the credentials as open's
\* online branch does: on the same store and the same reply of the camera,
\* every step of its resolution is the step open takes, so that both leave
\* the store and the credentials of the HTTP manager in the same state.
SwitchResolvesLikeOpen ==
    [][(client_op = "switch_to_online_mode" /\ client_pc # "idle") => OpenResolutionStep]_vars

----------------------------------------------------------------------------
(* Claims about reconnect, checked under SpecReconnect.                    *)

\* The last call the latest attempt made.
LastCall(calls) == IF calls = <<>> THEN "none" ELSE calls[Len(calls)]

\* C23 (reconnect is a bounded retry loop that never raises): reconnect never
\* makes more than max_reconnect_attempts attempts and attempts are counted
\* one by one; an attempt calls ble.connect exactly when BLE is down and
\* http.connect exactly when HTTP is down, and then is_healthy; reconnect
\* returns True exactly at an attempt whose health check passed, returns
\* False only with the budget used up, and ends in no other way: a connect
\* that raises and a health check that fails lead to the next attempt.
ReconnectBounded ==
    [][/\ reconnect_attempt' <= max_reconnect_attempts'
       /\ reconnect_attempt' \in {reconnect_attempt, reconnect_attempt + 1}
            \/ (reconnect_pc = "idle" /\ reconnect_attempt' <= 1)
       /\ reconnect_result' \in {"none", "true", "false"}
       /\ (reconnect_pc' = "idle" /\ reconnect_pc # "idle") =>
            reconnect_result' \in {"true", "false"}
       /\ reconnect_pc = "ble" /\ reconnect_pc' # "ble" =>
            (reconnect_calls' = <<"ble.connect">>) = ~ble_is_connected
       /\ reconnect_pc = "ble" /\ reconnect_attempt' = reconnect_attempt + 1 =>
            reconnect_calls' = <<"ble.connect">> /\ ~ble_is_connected'
       /\ reconnect_pc = "http" /\ reconnect_pc' # "http" =>
            /\ (reconnect_calls' # reconnect_calls) = ~http_is_connected
            /\ reconnect_calls' # reconnect_calls =>
                 reconnect_calls' = reconnect_calls \o <<"http.connect">>
            /\ reconnect_pc' = "health" => http_is_connected'
       /\ reconnect_pc = "health" /\ reconnect_pc' # "health" =>
            /\ LastCall(reconnect_calls') \in {"healthy", "unhealthy"}
            /\ (LastCall(reconnect_calls') = "healthy") =
                 (reconnect_pc' = "idle" /\ reconnect_result' = "true")
            /\ LastCall(reconnect_calls') = "healthy" =>
                 ble_is_connected /\ http_is_connected
       /\ (reconnect_result' = "true" /\ reconnect_result # "true") =>
            reconnect_pc = "health" /\ UNCHANGED reconnect_attempt
       /\ (reconnect_result' = "false" /\ reconnect_pc # "idle") =>
            /\ reconnect_attempt = max_reconnect_attempts
            /\ reconnect_pc' = "idle"
            /\ LastCall(reconnect_calls') # "healthy"
       /\ (reconnect_pc = "idle" /\ reconnect_pc' = "idle" /\ reconnect_result' # reconnect_result) =>
            reconnect_result' = "false" /\ max_reconnect_attempts = 0
      ]_vars

\* C23 witness: reconnect returned True at its second attempt, after a first
\* attempt in which a connect raised.
ReconnectBoundedWitness ==
    /\ reconnect_pc = "idle"
    /\ reconnect_result = "true"
    /\ reconnect_attempt = 2
    /\ reconnect_slept = backoff(1)
    /\ LastCall(reconnect_calls) = "healthy"

----------------------------------------------------------------------------
(* Claims about _fragment, checked under SpecFragment.                     *)

----------------------------------------------------------------------------
(* Claims about BLE writes, checked under SpecWrite.                       *)

\* C25 as stated: a write call that fails raises BleConnectionError,
\* whether the manager was never connected, was disconnected or lost its
\* link, and whether the first or a later fragment failed.
WriteFailsWithBleConnectionError ==
    write_result \in {"none", "returned", "BleConnectionError"}

----------------------------------------------------------------------------
(* Claims about a timed-out wait, checked under SpecTimeout.               *)

\* The serial of the request a response answers.
ResponseSerial(data) == data[3]

\* The request with serial n has been given up: no task holds it any more,
\* or the task that holds it has just seen its wait time out.
Abandoned(n) ==
    \A u \in Tasks : req[u] = n => (pc[u] = "done" /\ got[u].kind = "timeout")

\* C26 as stated (cancellation consistency): when wait_for_response has
\* timed out, no partly accumulated message and no partial header are left
\* in the manager, and no command receives as its response the response to
\* a request that was given up.
TimeoutLeavesCleanState ==
    \A t \in Tasks :
        /\ (pc[t] = "done" /\ got[t].kind = "timeout") => CleanState
        /\ (pc[t] = "done" /\ got[t].kind = "msg" /\ got[t].data[2] = 239) =>
              ~Abandoned(ResponseSerial(got[t].data))

----------------------------------------------------------------------------
(* Claims about the Connect* calls and the waits behind them               *)
(* (ble_commands.py:792-1002, 1113-1259).                                  *)

\* The provisioning states that end the wait with an error (lines 953-961).
TerminalFailures ==
    {"PROVISIONING_ABORTED_BY_SYSTEM", "PROVISIONING_CANCELLED_BY_USER",
     "PROVISIONING_ERROR_FAILED_TO_ASSOCIATE", "PROVISIONING_ERROR_PASSWORD_AUTH",
     "PROVISIONING_ERROR_EULA_BLOCKING", "PROVISIONING_ERROR_NO_INTERNET",
     "PROVISIONING_ERROR_UNSUPPORTED_TYPE"}

TerminalSuccesses == {"PROVISIONING_SUCCESS_NEW_AP", "PROVISIONING_SUCCESS_OLD_AP"}

FailureCauses == {WaitCause("provis", s) : s \in TerminalFailures}
SuccessCauses == {WaitCause("provis", s) : s \in TerminalSuccesses}
TimeoutCauses == {WaitCause("timeout", "none"), WaitCause("expired", "none")}

KeepWaitingCauses ==
    {WaitCause("provis", "PROVISIONING_STARTED")}
    \cup {WaitCause(n.kind, n.state) : n \in {x \in Notifications : x.kind # "provis"}}

\* C28: in the provisioning wait a STARTED notification or one that is not a
\* provisioning state leaves the Connect* call waiting; a SUCCESS state makes
\* it return on that notification; each of the seven error states makes it
\* raise on that notification the WiFi state error that names this state, and
\* never the outcome of a timeout.
ProvisioningStatesHandled ==
    /\ connect_cause \in KeepWaitingCauses =>
            wifi_pc = "connect_wait" /\ connect_outcome.cause # connect_cause
    /\ connect_cause \in SuccessCauses =>
            /\ connect_outcome.cause = connect_cause
            /\ connect_outcome.end = "returned"
    /\ connect_cause \in FailureCauses =>
            /\ connect_outcome.cause = connect_cause
            /\ connect_outcome.end = "raised"
            /\ connect_outcome.error = WifiStateError(wifi_ssid, connect_cause.state)
    /\ (connect_outcome.site = "new" /\ connect_outcome.cause \in FailureCauses) =>
            wifi_result = WifiStateError(wifi_ssid, connect_outcome.cause.state)

\* RequestConnectNew was accepted, PROVISIONING_ERROR_NO_INTERNET was notified,
\* and connect_to_wifi raised the error that names it.
ProvisioningStatesHandledWitness ==
    /\ connect_outcome.site = "new"
    /\ connect_outcome.cause = WaitCause("provis", "PROVISIONING_ERROR_NO_INTERNET")
    /\ wifi_result = WifiStateError(wifi_ssid, "PROVISIONING_ERROR_NO_INTERNET")
    /\ wifi_pc = "done"

\* The scan notifications that report the scan as aborted (lines 848-851).
AbortCauses ==
    {WaitCause("scan", s) : s \in {"SCANNING_ABORTED_BY_SYSTEM", "SCANNING_CANCELLED_BY_USER"}}

\* C29: a scan notification that reports the scan as aborted ends
\* scan_wifi_networks with BleConnectionError on that notification, which
\* connect_to_wifi lets out (line 1061 catches TimeoutError only): the scan
\* neither goes on waiting nor ends with the scan timeout.
ScanAbortFailsAtOnce ==
    scan_cause \in AbortCauses =>
        /\ wifi_pc = "done"
        /\ scan_end = "ble_error"
        /\ wifi_result = BleError

----------------------------------------------------------------------------
(* Claims about the waits of the readiness probe (http_manager.py:177-297). *)

\* A step of ProbeAttempt after which the loop makes another attempt.
ProbeRetries == probe_pc = "probing" /\ probe_pc' = "probing" /\ attempt' = attempt + 1

\* C30: the probe issues at most http_keepalive_max_retries GETs and raises
\* the startup-timeout error after the last one; it returns on status 200
\* and raises at once on a failure that is not retryable, in both cases
\* with no further GET; and every retry, whatever made attempt n fail, comes
\* after a sleep of wait_time(n) retry intervals: one interval for n <= 3
\* and n - 2 intervals for n > 3.
ProbeWaitsBeforeEveryRetry ==
    [][/\ probe_gets' <= http_keepalive_max_retries
       /\ (probe_pc = "probing" /\ probe_pc' = "done") =>
              /\ probe_result' \in {"ready", "connection_failed", "unreachable",
                                    "startup_timeout"}
              /\ probe_gets' = attempt
              /\ probe_result' = "startup_timeout" => attempt = http_keepalive_max_retries
       /\ ProbeRetries => probe_slept' = probe_slept + wait_time(attempt)]_vars

----------------------------------------------------------------------------
(* Claims about the record of credentials, checked under SpecClient.       *)

\* open has ended after the refresh of a complete stored record ran and
\* brought no address: the status query raised, or the last reply had none.
RefreshBroughtNoIp ==
    /\ client_op = "open"
    /\ client_pc = "idle"
    /\ status # NoStatus
    /\ has_valid_credentials(loaded)
    /\ (status = QueryRaised \/ ~has_ip(status))

\* C31: when the refresh of open brings no address, open still returns, the
\* stored record is the one that was loaded and the HTTP manager receives
\* it; and the IP wait makes at most ip_wait_max_attempts status queries.
IpRefreshFailureNonFatal ==
    /\ RefreshBroughtNoIp =>
            /\ client_result = "returned"
            /\ store = loaded
            /\ http_credentials = loaded
    /\ ip_attempt <= ip_wait_max_attempts

\* A step of the refresh of a complete stored record (client.py:285-342 and
\* 494-511) that writes the store.
RefreshSaves == client_pc \in {"refresh", "ip_wait"} /\ store' # store

\* C32: a refresh changes nothing in the stored record but its ip_address:
\* username, password and certificate after the refresh are those of the
\* record before it, whatever the status reply holds.
RefreshChangesOnlyIp ==
    [][RefreshSaves =>
          \A old \in store : \A new \in store' :
              /\ new.username = old.username
              /\ new.password = old.password
              /\ new.certificate = old.certificate]_vars

\* The packets of the call: _fragment of one of the payloads write is given.
IsFragmentsOf(packets) == \E len \in WriteLens : packets = Fragment(Payload(len, 0)).packets

\* C33: the packets a write call gives to write_gatt_char are, in order, the
\* packets _fragment produced: every packet before the last one given was
\* acknowledged before the next was given, a call that returned gave all of
\* them, and a call in which a packet failed gave none after that packet.
WriteSendsFragmentsInOrder ==
    write_result # "BleConnectionError" =>
        /\ write_pc = "writing" => IsFragmentsOf(write_log \o write_packets)
        /\ write_result = "returned" =>
                IsFragmentsOf(write_log) /\ write_sent = Len(write_log) /\ write_pc = "idle"
        /\ write_result = "BleakError" =>
                /\ write_pc = "idle"
                /\ write_sent = Len(write_log) - 1
                /\ write_packets # <<>>
                /\ write_log # <<>>
                /\ write_log[Len(write_log)] = Head(write_packets)
                /\ IsFragmentsOf(write_log \o Tail(write_packets))
        /\ write_pc = "writing" => write_sent = Len(write_log)

\* The second of three packets failed: two packets were given, one was
\* acknowledged, the third was never given.
WriteSendsFragmentsInOrderWitness ==
    /\ write_result = "BleakError"
    /\ Len(write_log) = 2
    /\ Len(write_packets) = 2
    /\ write_sent = 1

----------------------------------------------------------------------------
(* Claims about the hand-off into the queue, checked under SpecLink.       *)

\* C34: a message whose reassembly _on_notification completed before a
\* command called clear_response_queue is never what that command's
\* wait_for_response returns.
HandOffRespectsClear ==
    \A t \in Tasks :
        (pc[t] = "done" /\ got[t].kind = "msg") => got[t].data \notin scheduled[t]

----------------------------------------------------------------------------
(* Claims about what reaches the queue, checked under SpecMalformed.       *)

\* The notification _on_notification is about to handle is a continuation
\* packet (bit 7 of its first byte is set) and no partial header is pending.
ContinuationNext ==
    /\ wire # <<>>
    /\ Head(wire) # <<>>
    /\ header_buffer = <<>>
    /\ BitAnd(Head(wire)[1], CONT_MASK) # 0

\* No message is being accumulated.
NothingAccumulating == accumulating_response = <<>> /\ bytes_remaining = 0

\* C35: a continuation packet that arrives while no message is being
\* accumulated, or right after a packet with an unknown header class,
\* delivers nothing; so every delivered message was begun by a packet with
\* a valid header and holds that packet's payload and its continuations.
OnlyFramedMessagesDelivered ==
    [][(ContinuationNext /\ wire' = Tail(wire)
            /\ (NothingAccumulating \/ last_event.branch = "unknown"))
          => outs' = outs]_vars

----------------------------------------------------------------------------
(* Claims about reassembly across links, checked under SpecRelink.         *)

\* C36: after a link drop or a disconnect followed by a successful connect
\* the reassembly is in a clean state, so that a message received on the new
\* link is delivered as exactly its payload.
RelinkStartsClean ==
    /\ (Relinked /\ tx = NoTx /\ wire = <<>>) => CleanState
    /\ (Relinked /\ tx.kind = "msg" /\ wire = <<>>) => outs = <<TxPayload>>

----------------------------------------------------------------------------
(* Claims about the HTTP manager's session, checked under SpecSession.     *)

\* C37: is_connected implies an open session, a connect that fails leaves no
\* open session behind, and after close no session of the manager is open
\* unless closing it raised.
NoSessionLeftOpen ==
    /\ http_is_connected => http_session
    /\ (client_pc = "idle" /\ client_result = "HttpConnectionError") => ~http_session
    /\ (client_pc = "idle" /\ client_op = "close" /\ ~http_is_connected) => ~http_session

----------------------------------------------------------------------------
(* Claims about reconnect in offline mode, checked under SpecReconnect.    *)

\* reconnect has returned on a client in offline mode whose HTTP manager was
\* handed no credentials.
OfflineReconnectReturned ==
    /\ offline_mode
    /\ http_credentials = {}
    /\ reconnect_pc = "idle"
    /\ reconnect_result # "none"

\* C38: in offline mode reconnect attempts no HTTP connection, and it returns
\* true when the BLE link is connected or was connected again within a budget
\* of at least one attempt.
OfflineReconnectNeedsOnlyBle ==
    OfflineReconnectReturned =>
        /\ \A i \in 1..Len(reconnect_calls) : reconnect_calls[i] # "http.connect"
        /\ (ble_is_connected /\ max_reconnect_attempts > 0) => reconnect_result = "true"

----------------------------------------------------------------------------
(* Claims about the mode switch, checked under SpecClient.                 *)

\* C39: switch_to_online_mode is all-or-nothing for the mode. A step of it
\* changes the mode only from offline to online, in the step that returns
\* after set_credentials handed the resolved credentials to the HTTP
\* manager; the credentials of the HTTP manager change in that step only;
\* when the call raises the client is offline as before; and a call made
\* while online returns at once and changes nothing.
SwitchAllOrNothing ==
    [][client_op' = "switch_to_online_mode" =>
        /\ offline_mode' # offline_mode =>
            /\ offline_mode
            /\ client_result' = "returned"
            /\ http_credentials' = the_credentials'
            /\ http_credentials' # {}
            /\ client_log'[Len(client_log')] = "set_credentials"
        /\ http_credentials' # http_credentials => (offline_mode /\ ~offline_mode')
        /\ client_result' \in {"ValueError", "BleConnectionError"} =>
            (offline_mode /\ offline_mode' /\ UNCHANGED http_credentials)
        /\ ~offline_mode =>
            /\ client_result' = "returned"
            /\ client_log' = <<>>
            /\ UNCHANGED <<offline_mode, http_credentials, store, connVars>>]_vars

\* switch_to_online_mode raised after requests had been sent to the camera:
\* the client is offline and the HTTP manager has no credentials.
SwitchAllOrNothingWitness ==
    /\ client_op = "switch_to_online_mode"
    /\ client_pc = "idle"
    /\ client_result = "BleConnectionError"
    /\ Len(client_log) > 2
    /\ offline_mode
    /\ http_credentials = {}

----------------------------------------------------------------------------
(* Claims about execute_all, checked under SpecMulti.                      *)

\* C40: execute_all never raises because of a single camera, and what it
\* returns holds an entry for every requested camera: (False, error) for a
\* camera without a client, and its own result for every other camera.
ExecuteAllIsolatesErrors ==
    /\ execute_all_outcome # "KeyError"
    /\ execute_all_outcome = "returned" =>
        /\ DOMAIN result_dict = target_ids
        /\ \A id \in target_ids \ clients : ~result_dict[id].success

====
